---- MODULE Spec2Model ----
(***************************************************************************)
(* Verification model of the multi-intent conversation core of the AWS     *)
(* solutions recommender agent: intent classification and priority         *)
(* processing, requirement merging, context retrieval/update and the       *)
(* session lifecycle manager.                                              *)
(*                                                                         *)
(* UUIDs are modelled by small naturals, datetimes by a number of days,    *)
(* confidence scores by tenths.  The language-understanding call, the      *)
(* intent handlers and the content of the DynamoDB tables are inputs.      *)
(***************************************************************************)
EXTENDS Integers, Sequences, FiniteSets, TLC

(***************************************************************************)
(* Bounds of the model.                                                    *)
(***************************************************************************)
MaxIntents == 3      \* longest intent list the understanding call returns
MaxStored == 2       \* longest item list of the intents table for one message
MaxTime == 32        \* last day of the clock
MaxPrev == 2         \* longest requirement list stored for a session
MaxReply == 3        \* longest intent list given to the aggregator and the formatter
MaxTurnIntents == 2   \* longest intent list of a turn
MaxTurnBatch == 2     \* longest requirement list extracted in a turn
MaxServices == 2      \* longest list of services given to check_alignment
MaxMergeBatch == 2    \* longest batch merged in both orders
MaxWriterTime == 3    \* last day of the clock beside the writers of a record
MaxMessages == 6      \* longest message list given to _summarize_conversation
MaxPricingHours == 48  \* last hour of the clock of the price cache
MaxLimiterRequests == 2  \* requests a worker serves
MaxBatch == 2        \* longest requirement list of one extraction

(***************************************************************************)
(* models/intent.py                                                        *)
(***************************************************************************)
ARCHITECTURE_REQUEST == "architecture_request"
PRICING_QUERY == "pricing_query"
CLARIFICATION == "clarification"
MODIFICATION == "modification"
IntentType == {ARCHITECTURE_REQUEST, PRICING_QUERY, CLARIFICATION, MODIFICATION}

PENDING == "pending"
PROCESSING == "processing"
COMPLETED == "completed"
FAILED == "failed"
IntentStatus == {PENDING, PROCESSING, COMPLETED, FAILED}

\* A mutant of validate_priority: the supplied priority is accepted as it is.
validate_priority_accepting(v, intent_type) == v

\* Intent.validate_priority: intent_type is declared before priority, so it
\* is in info.data when the priority validator runs.
validate_priority(v, intent_type) ==
    LET expected_priority ==
            CASE intent_type = ARCHITECTURE_REQUEST -> 1
              [] intent_type = MODIFICATION -> 1
              [] intent_type = PRICING_QUERY -> 2
              [] intent_type = CLARIFICATION -> 3
              [] OTHER -> 3
    IN  IF v # expected_priority THEN expected_priority ELSE v

\* The Intent constructor (pydantic model): fields validated in declaration order.
Intent(intent_id, intent_type, priority, confidence, status) ==
    [intent_id |-> intent_id,
     intent_type |-> intent_type,
     priority |-> validate_priority(priority, intent_type),
     confidence |-> confidence,
     status |-> status]

(***************************************************************************)
(* Python's stable sort (list.sort / sorted with key=priority) over a list *)
(* of references into the heap of Intent objects.                          *)
(***************************************************************************)
RECURSIVE InsertByPriority(_, _, _)
InsertByPriority(sorted, x, heap) ==
    IF sorted = <<>> THEN <<x>>
    ELSE IF heap[Head(sorted)].priority <= heap[x].priority
         THEN <<Head(sorted)>> \o InsertByPriority(Tail(sorted), x, heap)
         ELSE <<x>> \o sorted

RECURSIVE SortedByPriority(_, _)
SortedByPriority(intents, heap) ==
    IF intents = <<>> THEN <<>>
    ELSE InsertByPriority(SortedByPriority(SubSeq(intents, 1, Len(intents) - 1), heap),
                          intents[Len(intents)], heap)

Reversed(s) == [i \in 1..Len(s) |-> s[Len(s) + 1 - i]]

(***************************************************************************)
(* services/intent/classifier.py                                           *)
(***************************************************************************)
DefaultConfidence == 8     \* intent_info.get("confidence", 0.8), in tenths

\* dict.get(key, default) on an entry that is <<>> when the key is missing
\* and <<v>> when it maps to v.
DictGet(entry, default) == IF entry = <<>> THEN default ELSE entry[1]

get_priority_for_intent_type(intent_type) ==
    CASE intent_type = ARCHITECTURE_REQUEST -> 1
      [] intent_type = MODIFICATION -> 1
      [] intent_type = PRICING_QUERY -> 2
      [] intent_type = CLARIFICATION -> 3
      [] OTHER -> 3

\* The objects built by the loop of classify_intents, one per entry of
\* intent_data["intents"]; object i is the one built from entry i.
ClassifiedHeap(intent_data) ==
    [i \in 1..Len(intent_data) |->
        Intent(i,
               intent_data[i].intent_type,
               get_priority_for_intent_type(intent_data[i].intent_type),
               DictGet(intent_data[i].confidence, DefaultConfidence),
               PENDING)]

\* A mutant of classify_intents: the list is returned in the order of the
\* understanding call, the sort is missing.
classify_intents_unsorted(intent_data) ==
    [heap |-> ClassifiedHeap(intent_data),
     intents |-> [i \in 1..Len(intent_data) |-> i]]

\* classify_intents, after the understanding call returned intent_data:
\* the heap of the new Intent objects and the returned list of references.
classify_intents(intent_data) ==
    LET heap == ClassifiedHeap(intent_data)
    IN  [heap |-> heap,
         intents |-> SortedByPriority([i \in 1..Len(intent_data) |-> i], heap)]

(***************************************************************************)
(* services/intent/processor.py                                            *)
(***************************************************************************)
\* A mutant of sort_by_priority: sorted(..., reverse=True).
sort_by_priority_reverse(intents, heap) == Reversed(SortedByPriority(Reversed(intents), heap))

sort_by_priority(intents, heap) == SortedByPriority(intents, heap)

(***************************************************************************)
(* Inputs.                                                                 *)
(***************************************************************************)
SeqsUpTo(S, n) == UNION {[1..k -> S] : k \in 0..n}

\* intent_data["intents"]: entries of any category, in any order; the
\* entries of one answer all carry a confidence or all omit it.
LlmIntentOutputs ==
    {[i \in 1..Len(types) |-> [intent_type |-> types[i], confidence |-> c]] :
        types \in SeqsUpTo(IntentType, MaxIntents), c \in {<<>>, <<9>>}}

\* One item of the intents table; the stored priority is whatever was written.
StoredIntentItem == [intent_type : IntentType, priority : 0..4]
StoredIntentLists == SeqsUpTo(StoredIntentItem, MaxStored)

OrdersOf(s) ==
    {[i \in 1..Len(s) |-> s[p[i]]] :
        p \in {q \in [1..Len(s) -> 1..Len(s)] : \A i, j \in 1..Len(s) : q[i] = q[j] => i = j}}

VARIABLES
    pc,                  \* position of the intent pipeline
    llm_intents,         \* intent_data["intents"] of the last understanding call
    intent_heap,         \* the Intent objects, by intent_id
    recognized_intents,  \* the list classify_intents returned
    proc_input,          \* the list passed to process_intents
    sorted_intents,      \* process_intents: sorted_intents
    idx,                 \* process_intents: position of the for loop
    results,             \* process_intents: results, keyed by the UUID object
    handler_log,         \* the handler invocations and their outcomes, in order
    stored_items,        \* items read by the last IntentRepository.get_by_message_id
    loaded_intents       \* the list it returned

intent_vars == <<pc, llm_intents, intent_heap, recognized_intents, proc_input,
                 sorted_intents, idx, results, handler_log, stored_items, loaded_intents>>

VARIABLES
    now,                     \* datetime.utcnow(), in days
    conversations_table,     \* DynamoDB table "conversations", by session_id
    user_requirements_table, \* DynamoDB table "user_requirements", by session_id
    messages_table,          \* DynamoDB table "messages", by session_id
    session_call,            \* the last call of a SessionManager method and its outcome
    extract_call,            \* the last run of the requirement stage
    update_calls             \* the last update_context call, and its repetition

store_vars == <<now, conversations_table, user_requirements_table, messages_table>>
call_vars == <<session_call, extract_call, update_calls>>

VARIABLES
    reply_call,              \* the last call of aggregate_results or format_response
    turn,                    \* the AgentState of the turn in progress and its position
    alignment_call           \* the last call of WellArchitectedChecker.check_alignment

VARIABLES
    merge_call,              \* two requirement batches merged in both orders
    summary_call,            \* the last call of ContextRetriever._summarize_conversation
    writers,                 \* operations on one session record between their get and put
    price_state,             \* the price cache and the last _calculate_service_cost call
    limiter                  \* the rate-limit counters and the requests being checked

aux_vars == <<merge_call, summary_call, writers, price_state, limiter>>

turn_vars == <<reply_call, turn, alignment_call, aux_vars>>

vars == <<intent_vars, store_vars, call_vars, turn_vars>>

UuidKey(intent_id) == <<"UUID", intent_id>>
EmptyDict == [k \in {} |-> {}]

InitIntents ==
    /\ pc = "start"
    /\ llm_intents = <<>>
    /\ intent_heap = <<>>
    /\ recognized_intents = <<>>
    /\ proc_input = <<>>
    /\ sorted_intents = <<>>
    /\ idx = 0
    /\ results = EmptyDict
    /\ handler_log = <<>>
    /\ stored_items = <<>>
    /\ loaded_intents = <<>>

(***************************************************************************)
(* MultiIntentClassifier.classify_intents                                  *)
(***************************************************************************)
ClassifyIntents ==
    /\ pc = "start"
    /\ \E intent_data \in LlmIntentOutputs :
          /\ llm_intents' = intent_data
          /\ intent_heap' = classify_intents(intent_data).heap
          /\ recognized_intents' = classify_intents(intent_data).intents
    /\ pc' = "classified"
    /\ UNCHANGED <<proc_input, sorted_intents, idx, results, handler_log,
                   stored_items, loaded_intents>>
    /\ UNCHANGED <<store_vars, call_vars, turn_vars>>

\* The understanding call raises or returns text json.loads rejects: the
\* exception leaves classify_intents.
ClassifyIntentsRaises ==
    /\ pc = "start"
    /\ pc' = "classify_raised"
    /\ UNCHANGED <<llm_intents, intent_heap, recognized_intents, proc_input,
                   sorted_intents, idx, results, handler_log, stored_items, loaded_intents>>
    /\ UNCHANGED <<store_vars, call_vars, turn_vars>>

(***************************************************************************)
(* IntentOrchestrator.process_intents, one step per await point.           *)
(***************************************************************************)
ProcessIntentsCall ==
    /\ pc = "classified"
    /\ \E intents \in OrdersOf(recognized_intents) :
          /\ proc_input' = intents
          /\ sorted_intents' = sort_by_priority(intents, intent_heap)
    /\ results' = EmptyDict
    /\ idx' = 1
    /\ pc' = "loop"
    /\ UNCHANGED <<llm_intents, intent_heap, recognized_intents, handler_log,
                   stored_items, loaded_intents>>
    /\ UNCHANGED <<store_vars, call_vars, turn_vars>>

\* intent.status = PROCESSING, then the handler is awaited.
HandlerStart ==
    /\ pc = "loop"
    /\ idx <= Len(sorted_intents)
    /\ LET id == sorted_intents[idx] IN
          /\ intent_heap' = [intent_heap EXCEPT ![id].status = PROCESSING]
          /\ handler_log' = Append(handler_log, <<"start", id>>)
    /\ pc' = "handler"
    /\ UNCHANGED <<llm_intents, recognized_intents, proc_input, sorted_intents,
                   idx, results, stored_items, loaded_intents>>
    /\ UNCHANGED <<store_vars, call_vars, turn_vars>>

\* _process_single_intent: the result of the placeholder handler.
process_single_intent(intent) ==
    [intent_id |-> <<"str", intent.intent_id>>,
     intent_type |-> intent.intent_type,
     status |-> "processed",
     success |-> TRUE]

HandlerReturns ==
    /\ pc = "handler"
    /\ LET id == sorted_intents[idx] IN
          /\ intent_heap' = [intent_heap EXCEPT ![id].status = COMPLETED]
          /\ results' = (UuidKey(id) :> process_single_intent(intent_heap[id])) @@ results
          /\ handler_log' = Append(handler_log, <<"return", id>>)
    /\ idx' = idx + 1
    /\ pc' = "loop"
    /\ UNCHANGED <<llm_intents, recognized_intents, proc_input, sorted_intents,
                   stored_items, loaded_intents>>
    /\ UNCHANGED <<store_vars, call_vars, turn_vars>>

\* A mutant of HandlerRaises: the intent is retried, its status reset.
HandlerRaisesRetry ==
    /\ pc = "handler"
    /\ LET id == sorted_intents[idx] IN
          /\ intent_heap' = [intent_heap EXCEPT ![id].status = PENDING]
          /\ handler_log' = Append(handler_log, <<"raise", id>>)
    /\ Len(handler_log) < 4 * MaxIntents
    /\ pc' = "loop"
    /\ UNCHANGED <<llm_intents, recognized_intents, proc_input, sorted_intents,
                   idx, results, stored_items, loaded_intents>>
    /\ UNCHANGED <<store_vars, call_vars, turn_vars>>

\* A mutant of HandlerRaises: the status is set but no result is recorded.
HandlerRaisesUnrecorded ==
    /\ pc = "handler"
    /\ LET id == sorted_intents[idx] IN
          /\ intent_heap' = [intent_heap EXCEPT ![id].status = FAILED]
          /\ handler_log' = Append(handler_log, <<"raise", id>>)
    /\ idx' = idx + 1
    /\ pc' = "loop"
    /\ UNCHANGED <<llm_intents, recognized_intents, proc_input, sorted_intents,
                   results, stored_items, loaded_intents>>
    /\ UNCHANGED <<store_vars, call_vars, turn_vars>>

\* The awaited handler raises an Exception: the except branch.
HandlerRaises ==
    /\ pc = "handler"
    /\ LET id == sorted_intents[idx] IN
          /\ intent_heap' = [intent_heap EXCEPT ![id].status = FAILED]
          /\ results' = (UuidKey(id) :> [error |-> "e", success |-> FALSE]) @@ results
          /\ handler_log' = Append(handler_log, <<"raise", id>>)
    /\ idx' = idx + 1
    /\ pc' = "loop"
    /\ UNCHANGED <<llm_intents, recognized_intents, proc_input, sorted_intents,
                   stored_items, loaded_intents>>
    /\ UNCHANGED <<store_vars, call_vars, turn_vars>>

ProcessIntentsReturn ==
    /\ pc = "loop"
    /\ idx > Len(sorted_intents)
    /\ pc' = "done"
    /\ UNCHANGED <<llm_intents, intent_heap, recognized_intents, proc_input,
                   sorted_intents, idx, results, handler_log, stored_items, loaded_intents>>
    /\ UNCHANGED <<store_vars, call_vars, turn_vars>>

(***************************************************************************)
(* IntentRepository.get_by_message_id: one Intent per stored item.         *)
(***************************************************************************)
get_by_message_id(items) ==
    [i \in 1..Len(items) |->
        Intent(MaxIntents + i, items[i].intent_type, items[i].priority,
               DefaultConfidence, PENDING)]

GetByMessageId ==
    /\ pc = "start"
    /\ \E items \in StoredIntentLists :
          /\ stored_items' = items
          /\ loaded_intents' = get_by_message_id(items)
    /\ pc' = "loaded"
    /\ UNCHANGED <<llm_intents, intent_heap, recognized_intents, proc_input,
                   sorted_intents, idx, results, handler_log>>
    /\ UNCHANGED <<store_vars, call_vars, turn_vars>>

NextIntents ==
    \/ ClassifyIntents
    \/ ClassifyIntentsRaises
    \/ ProcessIntentsCall
    \/ HandlerStart
    \/ HandlerReturns
    \/ HandlerRaises
    \/ ProcessIntentsReturn
    \/ GetByMessageId


(***************************************************************************)
(* Optional values: None is <<>>, a value v is <<v>>.                      *)
(***************************************************************************)
None == <<>>
Some(v) == <<v>>

SessionIds == {"s1", "s2"}

(***************************************************************************)
(* models/user_requirement.py                                              *)
(***************************************************************************)
RequirementType == {"application_type", "scale", "constraint", "preference"}

\* The categories and values the inputs of the model are drawn from.
InputRequirementTypes == {"scale", "constraint"}
RequirementValues == {"v1", "v2"}

\* UUID validation of the session_id field: the empty string is rejected.
ValidUuid(v) == v # ""

\* The UserRequirement constructor; <<>> stands for the ValidationError.
UserRequirement(session_id, requirement_type, requirement_value) ==
    IF ValidUuid(session_id) /\ requirement_type \in RequirementType
    THEN Some([session_id |-> session_id,
               requirement_type |-> requirement_type,
               requirement_value |-> requirement_value])
    ELSE None

(***************************************************************************)
(* models/conversation.py, models/context.py                               *)
(***************************************************************************)
TtlDays == 30

Conversation(session_id, created_at, last_accessed_at, current_context) ==
    [session_id |-> session_id,
     created_at |-> created_at,
     last_accessed_at |-> last_accessed_at,
     expires_at |-> created_at + TtlDays,
     current_context |-> current_context]

Context(session_id, current_recommendation_id, extracted_requirements, conversation_summary, last_intents, updated_at) ==
    [session_id |-> session_id,
     current_recommendation_id |-> current_recommendation_id,
     extracted_requirements |-> extracted_requirements,
     conversation_summary |-> conversation_summary,
     last_intents |-> last_intents,
     updated_at |-> updated_at]

(***************************************************************************)
(* repositories/conversation_repository.py                                 *)
(***************************************************************************)
\* model_dump(mode="json"): every datetime of the dumped model is already
\* its ISO string.
JsonValue(days) == [type |-> "str", value |-> days]

model_dump_json(conversation) ==
    [conversation EXCEPT !.created_at = JsonValue(@),
                         !.last_accessed_at = JsonValue(@),
                         !.expires_at = JsonValue(@)]

\* x.isoformat() exists for a datetime; on a str it is an AttributeError.
HasIsoformat(x) == x.type = "datetime"

get_by_session_id(table, session_id) == table[session_id]

\* A mutant of ConversationRepository.update: the item is put, and under
\* the key of every session.
ConversationRepository_update_unkeyed(table, conversation) ==
    [raised |-> FALSE, table |-> [sid \in DOMAIN table |-> Some(conversation)]]

\* ConversationRepository.update: the item is dumped in JSON mode, then
\* item["last_accessed_at"].isoformat() is evaluated before put_item.
ConversationRepository_update(table, conversation) ==
    LET item == model_dump_json(conversation)
    IN  IF HasIsoformat(item.last_accessed_at)
        THEN [raised |-> FALSE,
              table |-> [table EXCEPT ![conversation.session_id] = Some(conversation)]]
        ELSE [raised |-> TRUE, table |-> table]

\* The keyword arguments of a Conversation(...) call, as far as expires_at
\* goes: not given, given as None, or given as a day.
NoArguments == [has_expires_at |-> FALSE, expires_at |-> None]

\* Conversation.__init__ for a new session: expires_at has no default, so
\* without the argument validation fails before validate_expires_at or
\* model_post_init runs; given as None the validator fills in created_at +
\* 30 days; any other value is taken as it is.
Conversation_init(session_id, clock, kwargs) ==
    IF ~kwargs.has_expires_at
    THEN [raised |-> TRUE, value |-> None]
    ELSE [raised |-> FALSE,
          value |-> Some([session_id |-> session_id,
                          created_at |-> clock,
                          last_accessed_at |-> clock,
                          expires_at |-> IF kwargs.expires_at = None
                                         THEN clock + TtlDays
                                         ELSE kwargs.expires_at[1],
                          current_context |-> None])]

\* ConversationRepository.create: the item is dumped in JSON mode, then
\* item["created_at"].isoformat() is evaluated before put_item.
ConversationRepository_create(table, conversation) ==
    LET item == model_dump_json(conversation)
    IN  IF HasIsoformat(item.created_at)
        THEN [raised |-> FALSE,
              table |-> [table EXCEPT ![conversation.session_id] = Some(conversation)]]
        ELSE [raised |-> TRUE, table |-> table]

\* POST /conversations: Conversation() with no argument, then create.
create_conversation(table, clock, session_id) ==
    LET conversation == Conversation_init(session_id, clock, NoArguments)
    IN  IF conversation.raised
        THEN [raised |-> TRUE, error |-> "ValidationError", value |-> None, table |-> table]
        ELSE LET saved == ConversationRepository_create(table, conversation.value[1])
             IN  IF saved.raised
                 THEN [raised |-> TRUE, error |-> "AttributeError", value |-> None,
                       table |-> saved.table]
                 ELSE [raised |-> FALSE, error |-> "", value |-> conversation.value,
                       table |-> saved.table]

(***************************************************************************)
(* services/conversation/context_retriever.py                              *)
(***************************************************************************)
\* A text is the list of its characters, a character a number: the k-th
\* character of the content of the i-th message is 1000 * i + k, the others
\* are their code points.
Text(i, n) == [k \in 1..n |-> 1000 * i + k]

SEPARATOR == <<32, 124, 32>>
ELLIPSIS == <<46, 46, 46>>

Min(a, b) == IF a < b THEN a ELSE b

\* s[:n]
Slice(s, n) == SubSeq(s, 1, Min(n, Len(s)))

\* sep.join(parts)
RECURSIVE JoinText(_, _)
JoinText(sep, parts) ==
    IF parts = <<>> THEN <<>>
    ELSE IF Len(parts) = 1 THEN parts[1]
    ELSE parts[1] \o sep \o JoinText(sep, Tail(parts))

\* A mutant of _summarize_conversation: the text is cut at 500 characters
\* before the marker is added.
summarize_conversation_cut_late(messages) ==
    IF messages = <<>> THEN <<>>
    ELSE LET first == Slice(messages, 5)
             summary == JoinText(SEPARATOR, [i \in 1..Len(first) |-> Slice(first[i].content, 100)])
         IN  IF Len(summary) > 500 THEN Slice(summary, 500) \o ELLIPSIS ELSE summary

\* _summarize_conversation
summarize_conversation(messages) ==
    IF messages = <<>> THEN <<>>
    ELSE LET first == Slice(messages, 5)
             summary_parts == [i \in 1..Len(first) |-> Slice(first[i].content, 100)]
             summary == JoinText(SEPARATOR, summary_parts)
         IN  IF Len(summary) > 500 THEN Slice(summary, 497) \o ELLIPSIS ELSE summary

retrieve_context(conversations, requirements, messages, session_id) ==
    LET conversation == get_by_session_id(conversations, session_id)
    IN  IF conversation = None THEN None
        ELSE Some(Context(
                session_id,
                IF conversation[1].current_context # None
                    THEN conversation[1].current_context[1].current_recommendation_id
                    ELSE None,
                requirements[session_id],
                Some(summarize_conversation(messages[session_id])),
                None,
                conversation[1].last_accessed_at))

(***************************************************************************)
(* The duplicate check shared by extract_requirements and update_context:  *)
(* the set of existing values is computed once, before the loop.           *)
(***************************************************************************)
ValuesOf(requirements) ==
    {requirements[i].requirement_value : i \in 1..Len(requirements)}

\* A mutant of AppendNewValues: a new requirement takes the place of the
\* existing requirements of its category.
AppendReplacingCategory(existing, new) ==
    LET existing_values == ValuesOf(existing)
        IsNew(req) == req.requirement_value \notin existing_values
        added == SelectSeq(new, IsNew)
        Kept(req) == \A i \in 1..Len(added) : added[i].requirement_type # req.requirement_type
    IN  SelectSeq(existing, Kept) \o added

\* A mutant of AppendNewValues: duplicates are recognised by category and value.
AppendNewPairs(existing, new) ==
    LET existing_pairs == {<<existing[i].requirement_type, existing[i].requirement_value>> :
                               i \in 1..Len(existing)}
        IsNew(req) == <<req.requirement_type, req.requirement_value>> \notin existing_pairs
    IN  existing \o SelectSeq(new, IsNew)

AppendNewValues(existing, new) ==
    LET existing_values == ValuesOf(existing)
        IsNew(req) == req.requirement_value \notin existing_values
    IN  existing \o SelectSeq(new, IsNew)

(***************************************************************************)
(* services/recommendation/requirement_extractor.py                        *)
(***************************************************************************)
\* The UserRequirement objects of one extraction; None when a constructor raises.
BuiltRequirements(extracted_data) ==
    LET built == [i \in 1..Len(extracted_data) |->
                     UserRequirement(DictGet(extracted_data[i].session_id, ""),
                                     extracted_data[i].requirement_type,
                                     extracted_data[i].requirement_value)]
    IN  IF \E i \in 1..Len(built) : built[i] = None
        THEN None
        ELSE Some([i \in 1..Len(built) |-> built[i][1]])

\* extract_requirements after the understanding call returned extracted_data.
extract_requirements(extracted_data, previous_requirements) ==
    LET built == BuiltRequirements(extracted_data)
    IN  IF built = None THEN [raised |-> TRUE, requirements |-> <<>>]
        ELSE IF previous_requirements # <<>>
             THEN [raised |-> FALSE,
                   requirements |-> AppendNewValues(previous_requirements, built[1])]
             ELSE [raised |-> FALSE, requirements |-> built[1]]

(***************************************************************************)
(* services/conversation/context_updater.py                                *)
(***************************************************************************)
update_context(conversations, requirements, messages, clock, session_id, new_requirements, new_intents, current_recommendation, conversation_summary) ==
    LET existing_context == retrieve_context(conversations, requirements, messages, session_id)
        context ==
            IF existing_context = None
            THEN Context(session_id, current_recommendation, new_requirements,
                         conversation_summary, new_intents, clock)
            ELSE Context(
                    session_id,
                    IF current_recommendation # None
                        THEN current_recommendation
                        ELSE existing_context[1].current_recommendation_id,
                    IF new_requirements # <<>>
                        THEN AppendNewValues(existing_context[1].extracted_requirements,
                                             new_requirements)
                        ELSE existing_context[1].extracted_requirements,
                    IF conversation_summary \notin {None, Some(<<>>)}
                        THEN conversation_summary
                        ELSE existing_context[1].conversation_summary,
                    IF new_intents \notin {None, Some(<<>>)}
                        THEN new_intents
                        ELSE existing_context[1].last_intents,
                    clock)
        conversation == get_by_session_id(conversations, session_id)
    IN  IF conversation # None
        THEN LET saved == ConversationRepository_update(
                              conversations,
                              [conversation[1] EXCEPT !.current_context = Some(context)])
             IN  [raised |-> saved.raised, context |-> context, table |-> saved.table]
        ELSE [raised |-> FALSE, context |-> context, table |-> conversations]

(***************************************************************************)
(* services/conversation/session_manager.py                                *)
(***************************************************************************)
validate_session(table, clock, session_id) ==
    LET conversation == get_by_session_id(table, session_id)
    IN  IF conversation = None THEN FALSE
        ELSE IF conversation[1].expires_at < clock THEN FALSE
        ELSE TRUE

is_session_expired(clock, conversation) == conversation.expires_at < clock

resume_session(table, clock, session_id) ==
    IF ~validate_session(table, clock, session_id)
    THEN [raised |-> FALSE, value |-> None, table |-> table]
    ELSE LET conversation == get_by_session_id(table, session_id)
         IN  IF conversation = None
             THEN [raised |-> FALSE, value |-> None, table |-> table]
             ELSE LET touched == [conversation[1] EXCEPT !.last_accessed_at = clock]
                      saved == ConversationRepository_update(table, touched)
                  IN  IF saved.raised
                      THEN [raised |-> TRUE, value |-> None, table |-> saved.table]
                      ELSE [raised |-> FALSE, value |-> Some(touched), table |-> saved.table]

\* context.model_dump(mode="json"): the datetime of the context as a string.
ContextJson(context) == [context EXCEPT !.updated_at = JsonValue(@)]

restore_context(conversations, requirements, messages, clock, session_id) ==
    IF ~validate_session(conversations, clock, session_id) THEN None
    ELSE LET context == retrieve_context(conversations, requirements, messages, session_id)
         IN  IF context = None THEN None ELSE Some(ContextJson(context[1]))

\* GET /conversations/{session_id}: 404 when resume_session returns None,
\* else the response is built from the conversation.
get_conversation(conversations, requirements, messages, clock, session_id) ==
    LET r == resume_session(conversations, clock, session_id)
    IN  IF r.raised
        THEN [raised |-> TRUE, status |-> 500, body |-> None, table |-> r.table]
        ELSE IF r.value = None
        THEN [raised |-> FALSE, status |-> 404, body |-> None, table |-> r.table]
        ELSE [raised |-> FALSE, status |-> 200,
              body |-> Some([session_id |-> r.value[1].session_id,
                             created_at |-> r.value[1].created_at,
                             expires_at |-> r.value[1].expires_at]),
              table |-> r.table]

(***************************************************************************)
(* repositories/message_repository.py and api/routes/messages.py           *)
(***************************************************************************)
USER == "user"
ASSISTANT == "assistant"

Message(session_id, role, content, clock) ==
    [session_id |-> session_id, role |-> role, content |-> content, timestamp |-> clock]

\* MessageRepository.create: the item is dumped in JSON mode, then
\* item["timestamp"].isoformat() is evaluated before put_item.
MessageRepository_create(messages, message) ==
    LET item == [message EXCEPT !.timestamp = JsonValue(@)]
    IN  IF HasIsoformat(item.timestamp)
        THEN [raised |-> FALSE,
              table |-> [messages EXCEPT ![message.session_id] = Append(@, message)]]
        ELSE [raised |-> TRUE, table |-> messages]

\* POST /conversations/{session_id}/messages: the only test before the user
\* message is stored and the orchestrator runs is that a record of the
\* session exists.
send_message(conversations, messages, clock, session_id, content) ==
    IF get_by_session_id(conversations, session_id) = None
    THEN [outcome |-> "not found", error |-> "", messages |-> messages]
    ELSE LET saved == MessageRepository_create(messages,
                                                  Message(session_id, USER, content, clock))
         IN  IF saved.raised
             THEN [outcome |-> "raised", error |-> "AttributeError", messages |-> saved.table]
             ELSE [outcome |-> "pipeline", error |-> "", messages |-> saved.table]

(***************************************************************************)
(* Initial states.  The tables are filled from outside the model: a stored *)
(* conversation has expires_at = created_at + 30 days, the rows of the     *)
(* requirement table of a session are pairwise different.                  *)
(***************************************************************************)
CreatedDays == {0, 1}

RequirementRows(session_id) ==
    {[session_id |-> session_id, requirement_type |-> t, requirement_value |-> v] :
        t \in InputRequirementTypes, v \in RequirementValues}

DistinctSeqs(S, n) ==
    {q \in SeqsUpTo(S, n) : \A i, j \in 1..Len(q) : q[i] = q[j] => i = j}

StoredContexts(session_id) ==
    {None, Some(Context(session_id, Some("r1"), <<>>, None, None, 0))}

MergeIdle == merge_call = [op |-> "none"]
SummaryIdle == summary_call = [op |-> "none"]
WritersIdle == writers = <<>>
PricingIdle == price_state = [op |-> "none"]
LimiterIdle == limiter = [op |-> "none"]

CallsIdle ==
    /\ session_call = [op |-> "none"]
    /\ extract_call = [op |-> "none"]
    /\ update_calls = <<>>
    /\ reply_call = [op |-> "none"]
    /\ turn = [pc |-> "none"]
    /\ alignment_call = [op |-> "none"]

CallsInit ==
    /\ CallsIdle
    /\ MergeIdle
    /\ SummaryIdle
    /\ WritersIdle
    /\ PricingIdle
    /\ LimiterIdle

StoresIdle ==
    /\ now = 0
    /\ conversations_table = [sid \in SessionIds |-> None]
    /\ user_requirements_table = [sid \in SessionIds |-> <<>>]
    /\ messages_table = [sid \in SessionIds |-> <<>>]

InitSpecIntents == InitIntents /\ StoresIdle /\ CallsInit

SpecIntents == InitSpecIntents /\ [][NextIntents]_vars

InitSessions ==
    /\ InitIntents
    /\ CallsInit
    /\ now = 0
    /\ conversations_table \in
          [SessionIds -> {None} \cup
              {Some(Conversation(sid, c, c, None)) : sid \in SessionIds, c \in CreatedDays}]
    /\ \A sid \in SessionIds :
          conversations_table[sid] # None => conversations_table[sid][1].session_id = sid
    /\ user_requirements_table = [sid \in SessionIds |-> <<>>]
    /\ messages_table = [sid \in SessionIds |-> <<>>]

InitRequirements ==
    /\ InitIntents
    /\ CallsInit
    /\ now = 0
    /\ \E c1 \in {None} \cup {Some(Conversation("s1", 0, 0, ctx)) : ctx \in StoredContexts("s1")} :
          conversations_table =
              [sid \in SessionIds |->
                  IF sid = "s1" THEN c1 ELSE Some(Conversation(sid, 0, 0, None))]
    /\ \E rows \in DistinctSeqs(RequirementRows("s1"), MaxPrev) :
          user_requirements_table =
              [sid \in SessionIds |->
                  IF sid = "s1"
                  THEN (IF conversations_table["s1"] = None THEN <<>> ELSE rows)
                  ELSE <<[session_id |-> sid, requirement_type |-> "scale",
                          requirement_value |-> "v1"]>>]
    /\ messages_table = [sid \in SessionIds |-> <<>>]

(***************************************************************************)
(* The clock.                                                              *)
(***************************************************************************)
Tick ==
    /\ now < MaxTime
    /\ now' = now + 1
    /\ UNCHANGED <<conversations_table, user_requirements_table, messages_table>>
    /\ UNCHANGED <<intent_vars, call_vars, turn_vars>>

(***************************************************************************)
(* SessionManager                                                          *)
(***************************************************************************)
ValidateSession(session_id) ==
    /\ session_call' = [op |-> "validate_session",
                        session_id |-> session_id,
                        at |-> now,
                        result |-> validate_session(conversations_table, now, session_id)]
    /\ UNCHANGED <<extract_call, update_calls>>
    /\ UNCHANGED <<intent_vars, store_vars, turn_vars>>

IsSessionExpired(session_id) ==
    /\ conversations_table[session_id] # None
    /\ session_call' = [op |-> "is_session_expired",
                        session_id |-> session_id,
                        at |-> now,
                        result |-> is_session_expired(now, conversations_table[session_id][1])]
    /\ UNCHANGED <<extract_call, update_calls>>
    /\ UNCHANGED <<intent_vars, store_vars, turn_vars>>

ResumeSession(session_id) ==
    LET r == resume_session(conversations_table, now, session_id)
    IN  /\ conversations_table' = r.table
        /\ session_call' = [op |-> "resume_session",
                            session_id |-> session_id,
                            at |-> now,
                            raised |-> r.raised,
                            result |-> r.value,
                            before |-> conversations_table]
        /\ UNCHANGED <<now, user_requirements_table, messages_table>>
        /\ UNCHANGED <<extract_call, update_calls>>
        /\ UNCHANGED <<intent_vars, turn_vars>>

\* uuid4 gives the new session an id no stored conversation has.
CreateConversation(session_id) ==
    /\ conversations_table[session_id] = None
    /\ LET r == create_conversation(conversations_table, now, session_id)
       IN  /\ conversations_table' = r.table
           /\ session_call' = [op |-> "create_conversation",
                               session_id |-> session_id,
                               at |-> now,
                               raised |-> r.raised,
                               error |-> r.error,
                               result |-> r.value,
                               before |-> conversations_table]
    /\ UNCHANGED <<now, user_requirements_table, messages_table>>
    /\ UNCHANGED <<extract_call, update_calls>>
    /\ UNCHANGED <<intent_vars, turn_vars>>

\* request.content
RequestContent == Text(1, 1)

SendMessage(session_id) ==
    /\ LET r == send_message(conversations_table, messages_table, now, session_id,
                             RequestContent)
       IN  /\ messages_table' = r.messages
           /\ session_call' = [op |-> "send_message",
                               session_id |-> session_id,
                               at |-> now,
                               outcome |-> r.outcome,
                               error |-> r.error,
                               messages_before |-> messages_table,
                               before |-> conversations_table]
    /\ UNCHANGED <<now, conversations_table, user_requirements_table>>
    /\ UNCHANGED <<extract_call, update_calls>>
    /\ UNCHANGED <<intent_vars, turn_vars>>

RestoreContext(session_id) ==
    /\ session_call' = [op |-> "restore_context",
                        session_id |-> session_id,
                        at |-> now,
                        result |-> restore_context(conversations_table,
                                                   user_requirements_table,
                                                   messages_table, now, session_id),
                        before |-> conversations_table]
    /\ UNCHANGED <<extract_call, update_calls>>
    /\ UNCHANGED <<intent_vars, store_vars, turn_vars>>

GetConversation(session_id) ==
    LET r == get_conversation(conversations_table, user_requirements_table,
                              messages_table, now, session_id)
    IN  /\ conversations_table' = r.table
        /\ session_call' = [op |-> "get_conversation",
                            session_id |-> session_id,
                            at |-> now,
                            raised |-> r.raised,
                            status |-> r.status,
                            body |-> r.body,
                            before |-> conversations_table]
        /\ UNCHANGED <<now, user_requirements_table, messages_table>>
        /\ UNCHANGED <<extract_call, update_calls>>
        /\ UNCHANGED <<intent_vars, turn_vars>>

NextSessions ==
    \/ Tick
    \/ \E session_id \in SessionIds : RestoreContext(session_id)
    \/ \E session_id \in SessionIds : GetConversation(session_id)
    \/ \E session_id \in SessionIds : SendMessage(session_id)
    \/ \E session_id \in SessionIds : CreateConversation(session_id)
    \/ \E session_id \in SessionIds : ValidateSession(session_id)
    \/ \E session_id \in SessionIds : IsSessionExpired(session_id)
    \/ \E session_id \in SessionIds : ResumeSession(session_id)

SpecSessions == InitSessions /\ [][NextSessions]_vars

(***************************************************************************)
(* The requirement stage of a turn: process_message loads the previous     *)
(* requirements from the retrieved context, the node extracts and merges,  *)
(* then calls update_context with the merged list.                         *)
(***************************************************************************)
\* No call of the stage is on record yet.  The tables are the same after a
\* call as before it (the writes of the repositories fail), so one turn from
\* every initial content of the tables covers every turn.
TurnIdle == extract_call.op = "none" /\ update_calls = <<>>

\* extracted_data["requirements"]: entries of the input categories and
\* values; the entries of one answer all carry the same session_id or omit it.
LlmRequirementOutputs ==
    {[i \in 1..Len(kinds) |->
        [requirement_type |-> kinds[i][1],
         requirement_value |-> kinds[i][2],
         session_id |-> e]] :
        kinds \in SeqsUpTo(InputRequirementTypes \X RequirementValues, MaxBatch),
        e \in {None} \cup {Some(sid) : sid \in SessionIds}}

PreviousRequirements(session_id) ==
    LET existing_context == retrieve_context(conversations_table, user_requirements_table,
                                             messages_table, session_id)
    IN  IF existing_context # None /\ existing_context[1].extracted_requirements # <<>>
        THEN existing_context[1].extracted_requirements
        ELSE <<>>

ExtractRequirementsNode(session_id) ==
    \E extracted_data \in LlmRequirementOutputs :
        TurnIdle /\
        LET previous == PreviousRequirements(session_id)
            x == extract_requirements(extracted_data, previous)
            u == update_context(conversations_table, user_requirements_table, messages_table,
                                now, session_id, x.requirements, None, None, None)
        IN  /\ extract_call' = [op |-> "extract_requirements",
                                session_id |-> session_id,
                                previous |-> previous,
                                extracted_data |-> extracted_data,
                                raised |-> x.raised,
                                requirements |-> x.requirements,
                                update_raised |-> (~x.raised /\ u.raised),
                                update_context |-> IF x.raised THEN None ELSE Some(u.context)]
            /\ conversations_table' = IF x.raised THEN conversations_table ELSE u.table
            /\ update_calls' = <<>>
            /\ UNCHANGED <<now, user_requirements_table, messages_table>>
            /\ UNCHANGED session_call
            /\ UNCHANGED <<intent_vars, turn_vars>>

\* The understanding call raises or returns text json.loads rejects: the
\* exception leaves extract_requirements and the node.
ExtractRequirementsLlmRaises(session_id) ==
    /\ TurnIdle
    /\ extract_call' = [op |-> "extract_requirements",
                        session_id |-> session_id,
                        previous |-> PreviousRequirements(session_id),
                        extracted_data |-> <<>>,
                        raised |-> TRUE,
                        requirements |-> <<>>,
                        update_raised |-> FALSE,
                        update_context |-> None]
    /\ update_calls' = <<>>
    /\ UNCHANGED session_call
    /\ UNCHANGED <<intent_vars, store_vars, turn_vars>>

(***************************************************************************)
(* ContextUpdater.update_context called with a list of requirements, and   *)
(* called again with the same arguments.  extract_call and update_calls    *)
(* record the calls of the latest of the two stages only.                  *)
(***************************************************************************)
RequirementLists(session_id) == SeqsUpTo(RequirementRows(session_id), MaxBatch)

UpdateContextRecord(session_id, new_requirements, current_recommendation, u) ==
    [session_id |-> session_id,
     new_requirements |-> new_requirements,
     current_recommendation |-> current_recommendation,
     existing |-> retrieve_context(conversations_table, user_requirements_table,
                                   messages_table, session_id),
     previous |-> conversations_table[session_id],
     raised |-> u.raised,
     context |-> u.context,
     stored |-> u.table[session_id]]

UpdateContext(session_id) ==
    \E new_requirements \in RequirementLists(session_id),
       current_recommendation \in {None, Some("r2")} :
        TurnIdle /\
        LET u == update_context(conversations_table, user_requirements_table, messages_table,
                                now, session_id, new_requirements, None,
                                current_recommendation, None)
        IN  /\ update_calls' = <<UpdateContextRecord(session_id, new_requirements,
                                                     current_recommendation, u)>>
            /\ conversations_table' = u.table
            /\ extract_call' = [op |-> "none"]
            /\ UNCHANGED <<now, user_requirements_table, messages_table>>
            /\ UNCHANGED session_call
            /\ UNCHANGED <<intent_vars, turn_vars>>

UpdateContextAgain ==
    /\ Len(update_calls) = 1
    /\ LET first == update_calls[1]
           u == update_context(conversations_table, user_requirements_table, messages_table,
                               now, first.session_id, first.new_requirements, None,
                               first.current_recommendation, None)
       IN  /\ update_calls' = Append(update_calls,
                                     UpdateContextRecord(first.session_id, first.new_requirements,
                                                         first.current_recommendation, u))
           /\ conversations_table' = u.table
    /\ UNCHANGED <<now, user_requirements_table, messages_table>>
    /\ UNCHANGED <<session_call, extract_call>>
    /\ UNCHANGED <<intent_vars, turn_vars>>

NextRequirements ==
    \/ \E session_id \in SessionIds : ExtractRequirementsNode(session_id)
    \/ \E session_id \in SessionIds : ExtractRequirementsLlmRaises(session_id)
    \/ \E session_id \in SessionIds : UpdateContext(session_id)
    \/ UpdateContextAgain

SpecRequirements == InitRequirements /\ [][NextRequirements]_vars

(***************************************************************************)
(* Dictionaries of results.  A result is a record, "k in result" is        *)
(* k \in DOMAIN result; the mapping of results is a function whose keys    *)
(* are UuidKey(id), the UUID object, or StrKey(id), its str().             *)
(***************************************************************************)
StrKey(intent_id) == <<"str", intent_id>>

\* result.get("success", False)
GetSuccess(result) == IF "success" \in DOMAIN result THEN result.success ELSE FALSE

\* The pieces of text, each <<tag, n>>; Join puts the separator between the
\* parts as str.join does, the empty list giving the empty string.
Piece(tag, n) == <<tag, n>>

RECURSIVE Join(_, _)
Join(sep, parts) ==
    IF parts = <<>> THEN <<>>
    ELSE IF Len(parts) = 1 THEN <<parts[1]>>
    ELSE <<parts[1], sep>> \o Join(sep, Tail(parts))

(***************************************************************************)
(* services/intent/aggregator.py                                           *)
(***************************************************************************)
EmptyAggregated ==
    [content_parts |-> <<>>, recommendations |-> <<>>, pricing |-> None,
     diagrams |-> <<>>, metadata |-> {}]

\* The body of the for loop of aggregate_results for one intent.
AggregateOne(aggregated, intent, intent_results) ==
    LET intent_id == StrKey(intent.intent_id)
    IN  IF intent_id \notin DOMAIN intent_results THEN aggregated
        ELSE LET result == intent_results[intent_id]
             IN  IF ~GetSuccess(result) THEN aggregated
                 ELSE LET typed ==
                              IF intent.intent_type \in {ARCHITECTURE_REQUEST, MODIFICATION}
                              THEN [aggregated EXCEPT
                                      !.recommendations =
                                          IF "recommendation" \in DOMAIN result
                                          THEN Append(@, result.recommendation) ELSE @,
                                      !.content_parts =
                                          IF "content" \in DOMAIN result
                                          THEN Append(@, result.content) ELSE @]
                              ELSE IF intent.intent_type = PRICING_QUERY
                              THEN [aggregated EXCEPT
                                      !.pricing =
                                          IF "pricing" \in DOMAIN result
                                          THEN Some(result.pricing) ELSE @,
                                      !.content_parts =
                                          IF "content" \in DOMAIN result
                                          THEN Append(@, result.content) ELSE @]
                              ELSE IF intent.intent_type = CLARIFICATION
                              THEN [aggregated EXCEPT
                                      !.content_parts =
                                          IF "content" \in DOMAIN result
                                          THEN Append(@, result.content) ELSE @]
                              ELSE aggregated
                      IN  IF "metadata" \in DOMAIN result
                          THEN [typed EXCEPT !.metadata = @ \cup result.metadata]
                          ELSE typed

RECURSIVE AggregateLoop(_, _, _, _)
AggregateLoop(aggregated, order, heap, intent_results) ==
    IF order = <<>> THEN aggregated
    ELSE AggregateLoop(AggregateOne(aggregated, heap[Head(order)], intent_results),
                       Tail(order), heap, intent_results)

\* A mutant of aggregate_results: the intents are walked in the order given.
aggregate_results_unsorted(intent_results, intents, heap) ==
    LET aggregated == AggregateLoop(EmptyAggregated, intents, heap, intent_results)
    IN  [content_parts |-> aggregated.content_parts,
         recommendations |-> aggregated.recommendations,
         pricing |-> aggregated.pricing,
         diagrams |-> aggregated.diagrams,
         metadata |-> aggregated.metadata,
         content |-> Join(Piece("\n\n", 0), aggregated.content_parts)]

aggregate_results(intent_results, intents, heap) ==
    LET sorted_list == SortedByPriority(intents, heap)
        aggregated == AggregateLoop(EmptyAggregated, sorted_list, heap, intent_results)
    IN  [content_parts |-> aggregated.content_parts,
         recommendations |-> aggregated.recommendations,
         pricing |-> aggregated.pricing,
         diagrams |-> aggregated.diagrams,
         metadata |-> aggregated.metadata,
         content |-> Join(Piece("\n\n", 0), aggregated.content_parts)]

(***************************************************************************)
(* services/conversation/formatter.py                                      *)
(***************************************************************************)
SelectType(intents, heap, types) ==
    SelectSeq(intents, LAMBDA id : heap[id].intent_type \in types)

\* The architecture section: heading, explanation, services, diagram link.
ArchitectureSection(recommendation) ==
    <<Piece("## architecture", 0), Piece("explanation", recommendation.explanation),
      Piece("services:", 0)>>
    \o [k \in 1..Len(recommendation.services) |-> Piece("service", recommendation.services[k])]
    \o (IF recommendation.diagram_url # None
        THEN <<Piece("diagram_url", recommendation.diagram_url[1])>> ELSE <<>>)

\* The parts one pricing intent adds (pricing is a dict or another value).
PricingParts(intent_id, intent_results) ==
    IF intent_id \in DOMAIN intent_results /\ "pricing" \in DOMAIN intent_results[intent_id]
    THEN LET pricing == intent_results[intent_id].pricing
         IN  <<Piece("## pricing", 0)>>
             \o (IF pricing.is_dict
                 THEN <<Piece("total", pricing.total_monthly_cost)>>
                      \o (IF pricing.cost_breakdown # None
                          THEN <<Piece("breakdown:", 0)>>
                               \o [k \in 1..Len(pricing.cost_breakdown[1]) |->
                                      Piece("cost", pricing.cost_breakdown[1][k])]
                          ELSE <<>>)
                 ELSE <<>>)
    ELSE <<>>

ClarificationParts(intent_id, intent_results) ==
    IF intent_id \in DOMAIN intent_results /\ "content" \in DOMAIN intent_results[intent_id]
    THEN <<Piece("## clarification", 0), intent_results[intent_id].content>>
    ELSE <<>>

RECURSIVE Flatten(_)
Flatten(lists) == IF lists = <<>> THEN <<>> ELSE Head(lists) \o Flatten(Tail(lists))

PricingSections(ids, intent_results) ==
    Flatten([k \in 1..Len(ids) |-> PricingParts(StrKey(ids[k]), intent_results)])

ClarificationSections(ids, intent_results) ==
    Flatten([k \in 1..Len(ids) |-> ClarificationParts(StrKey(ids[k]), intent_results)])

FallbackProcessed == <<Piece("processed", 0)>>

format_response(intents, heap, intent_results, recommendation) ==
    LET architecture_intents == SelectType(intents, heap, {ARCHITECTURE_REQUEST, MODIFICATION})
        pricing_intents == SelectType(intents, heap, {PRICING_QUERY})
        clarification_intents == SelectType(intents, heap, {CLARIFICATION})
        response_parts ==
            (IF architecture_intents # <<>> /\ recommendation # None
             THEN ArchitectureSection(recommendation[1]) ELSE <<>>)
            \o PricingSections(pricing_intents, intent_results)
            \o ClarificationSections(clarification_intents, intent_results)
    IN  IF response_parts # <<>> THEN Join(Piece("\n", 0), response_parts)
        ELSE FallbackProcessed

(***************************************************************************)
(* Calls of aggregate_results and format_response.  The intents are any    *)
(* list of classified Intent objects, in any order; the results are what a *)
(* handler can hand back for each of them.                                 *)
(***************************************************************************)
ReplyIntentTypes == SeqsUpTo(IntentType, MaxReply)

ReplyHeap(types) ==
    ClassifiedHeap([i \in 1..Len(types) |-> [intent_type |-> types[i], confidence |-> <<>>]])

ListOfIds(n) == [i \in 1..n |-> i]

\* What a specific handler returns in place of the placeholder: the
\* placeholder's entries plus content, metadata and the data of its category.
PayloadResult(intent, success) ==
    LET id == intent.intent_id
    IN  IF intent.intent_type = PRICING_QUERY
        THEN [intent_id |-> StrKey(id), intent_type |-> intent.intent_type,
              status |-> "processed", success |-> success,
              content |-> Piece("content", id), metadata |-> {id},
              pricing |-> [is_dict |-> TRUE, total_monthly_cost |-> id,
                           cost_breakdown |-> Some(<<id>>)]]
        ELSE IF intent.intent_type \in {ARCHITECTURE_REQUEST, MODIFICATION}
        THEN [intent_id |-> StrKey(id), intent_type |-> intent.intent_type,
              status |-> "processed", success |-> success,
              content |-> Piece("content", id), metadata |-> {id},
              recommendation |-> Piece("summary", id)]
        ELSE [intent_id |-> StrKey(id), intent_type |-> intent.intent_type,
              status |-> "processed", success |-> success,
              content |-> Piece("content", id), metadata |-> {id}]

ResultKinds == {"absent", "failed", "placeholder", "payload"}

ResultOfKind(intent, kind) ==
    CASE kind = "failed" -> PayloadResult(intent, FALSE)
      [] kind = "placeholder" -> process_single_intent(intent)
      [] OTHER -> PayloadResult(intent, TRUE)

\* The mapping of results, keyed by str(intent_id); no entry for "absent".
StrKeyedResults(heap, kinds) ==
    [key \in {StrKey(i) : i \in {j \in 1..Len(kinds) : kinds[j] # "absent"}} |->
        ResultOfKind(heap[key[2]], kinds[key[2]])]

\* The mapping process_intents returns: one entry per intent, keyed by
\* intent.intent_id itself, the handler's result or the except branch's.
process_intents_results(intents, heap, outcomes) ==
    [key \in {UuidKey(intents[i]) : i \in 1..Len(intents)} |->
        CASE outcomes[key[2]] = "raise" -> [error |-> "e", success |-> FALSE]
          [] outcomes[key[2]] = "placeholder" -> process_single_intent(heap[key[2]])
          [] OTHER -> PayloadResult(heap[key[2]], TRUE)]

HandlerOutcomes == {"raise", "placeholder", "payload"}

Recommendations ==
    {None,
     Some([explanation |-> 1, services |-> <<1>>, diagram_url |-> None]),
     Some([explanation |-> 1, services |-> <<1>>, diagram_url |-> Some(1)])}

AggregateResults ==
    /\ reply_call.op = "none"
    /\ \E types \in ReplyIntentTypes :
       \E kinds \in [1..Len(types) -> ResultKinds] :
          LET heap == ReplyHeap(types)
              intents == ListOfIds(Len(types))
              intent_results == StrKeyedResults(heap, kinds)
          IN  reply_call' = [op |-> "aggregate_results",
                             intents |-> intents,
                             heap |-> heap,
                             intent_results |-> intent_results,
                             recommendation |-> None,
                             aggregated |-> aggregate_results(intent_results, intents, heap),
                             text |-> <<>>]
    /\ UNCHANGED <<turn, alignment_call, aux_vars>>
    /\ UNCHANGED <<intent_vars, store_vars, call_vars>>

FormatResponse ==
    /\ reply_call.op = "none"
    /\ \E types \in ReplyIntentTypes :
       \E kinds \in [1..Len(types) -> ResultKinds] :
       \E recommendation \in Recommendations :
          LET heap == ReplyHeap(types)
              intents == ListOfIds(Len(types))
              intent_results == StrKeyedResults(heap, kinds)
          IN  reply_call' = [op |-> "format_response",
                             intents |-> intents,
                             heap |-> heap,
                             intent_results |-> intent_results,
                             recommendation |-> recommendation,
                             aggregated |-> EmptyAggregated,
                             text |-> format_response(intents, heap, intent_results,
                                                      recommendation)]
    /\ UNCHANGED <<turn, alignment_call, aux_vars>>
    /\ UNCHANGED <<intent_vars, store_vars, call_vars>>

\* process_intents, then its mapping handed unchanged to aggregate_results
\* and to format_response, as _format_response_node hands it on.
ProcessIntentsThenReply ==
    /\ reply_call.op = "none"
    /\ \E types \in ReplyIntentTypes :
       \E outcomes \in [1..Len(types) -> HandlerOutcomes] :
       \E recommendation \in Recommendations :
          LET heap == ReplyHeap(types)
              intents == ListOfIds(Len(types))
              intent_results == process_intents_results(intents, heap, outcomes)
          IN  reply_call' = [op |-> "process_intents",
                             intents |-> intents,
                             heap |-> heap,
                             intent_results |-> intent_results,
                             recommendation |-> recommendation,
                             aggregated |-> aggregate_results(intent_results, intents, heap),
                             text |-> format_response(intents, heap, intent_results,
                                                      recommendation)]
    /\ UNCHANGED <<turn, alignment_call, aux_vars>>
    /\ UNCHANGED <<intent_vars, store_vars, call_vars>>

NextReply ==
    \/ AggregateResults
    \/ FormatResponse
    \/ ProcessIntentsThenReply

SpecReply == InitSpecIntents /\ [][NextReply]_vars

(***************************************************************************)
(* agents/state/agent_state.py: the fields of AgentState.  The model has   *)
(* no extra fields, so assigning any other attribute is a ValueError.      *)
(***************************************************************************)
AgentStateFields ==
    {"session_id", "conversation", "messages", "conversation_history", "current_message",
     "extracted_requirements", "recognized_intents", "current_recommendation",
     "recommendations_history", "requires_clarification", "clarification_questions",
     "processing_complete", "errors", "warnings"}

\* state.<name> = value is accepted.
CanSetAttr(name) == name \in AgentStateFields

AgentState(session_id) ==
    [session_id |-> session_id,
     extracted_requirements |-> <<>>,
     recognized_intents |-> <<>>,
     current_recommendation |-> None,
     processing_complete |-> FALSE]

(***************************************************************************)
(* services/conversation/orchestrator.py: one turn of process_message, one *)
(* step per node of the graph.  turn.log lists the nodes entered.          *)
(***************************************************************************)
Stages == <<"classify_intents", "extract_requirements", "generate_recommendation",
            "generate_diagram", "format_response">>

\* The edges of _build_graph.
NextStage(stage) ==
    CASE stage = "classify_intents" -> "extract_requirements"
      [] stage = "extract_requirements" -> "generate_recommendation"
      [] stage = "generate_recommendation" -> "generate_diagram"
      [] stage = "generate_diagram" -> "format_response"
      [] OTHER -> "END"

\* The node returns and the graph follows its edge.
NodeReturns(state) ==
    [turn EXCEPT !.state = state,
                 !.log = Append(@, turn.pc),
                 !.pc = NextStage(turn.pc)]

\* An exception leaves the node, the graph and process_message.
NodeRaises(state, error) ==
    [turn EXCEPT !.state = state,
                 !.log = Append(@, turn.pc),
                 !.raised_in = turn.pc,
                 !.error = error,
                 !.pc = "raised"]

InitTurn ==
    /\ InitIntents
    /\ CallsInit
    /\ now = 0
    /\ conversations_table =
          [sid \in SessionIds |->
              IF sid = "s1" THEN None ELSE Some(Conversation(sid, 0, 0, None))]
    /\ user_requirements_table =
          [sid \in SessionIds |->
              IF sid = "s1" THEN <<>>
              ELSE <<[session_id |-> sid, requirement_type |-> "scale",
                      requirement_value |-> "v1"]>>]
    /\ messages_table = [sid \in SessionIds |-> <<>>]

\* process_message up to graph.ainvoke: the state of the turn, with the
\* requirements of the retrieved context if there are any.
ProcessMessage(session_id) ==
    /\ turn.pc = "none"
    /\ turn' = [pc |-> "classify_intents",
                log |-> <<>>,
                raised_in |-> "",
                error |-> "",
                heap |-> <<>>,
                intent_results |-> EmptyDict,
                reply |-> None,
                requirement_stage |-> None,
                state |-> [AgentState(session_id) EXCEPT
                              !.extracted_requirements = PreviousRequirements(session_id)]]
    /\ UNCHANGED <<reply_call, alignment_call, aux_vars>>
    /\ UNCHANGED <<intent_vars, store_vars, call_vars>>

TurnIntentOutputs ==
    {[i \in 1..Len(types) |-> [intent_type |-> types[i], confidence |-> <<>>]] :
        types \in SeqsUpTo(IntentType, MaxTurnIntents)}

ClassifyIntentsNode ==
    /\ turn.pc = "classify_intents"
    /\ \E intent_data \in TurnIntentOutputs :
          LET classified == classify_intents(intent_data)
          IN  turn' = [NodeReturns([turn.state EXCEPT !.recognized_intents = classified.intents])
                          EXCEPT !.heap = classified.heap]
    /\ UNCHANGED <<reply_call, alignment_call, aux_vars>>
    /\ UNCHANGED <<intent_vars, store_vars, call_vars>>

\* The understanding call of classify_intents raises or returns text
\* json.loads rejects; nothing in the node or in process_message catches it.
ClassifyIntentsNodeRaises ==
    /\ turn.pc = "classify_intents"
    /\ turn' = NodeRaises(turn.state, "understanding call")
    /\ UNCHANGED <<reply_call, alignment_call, aux_vars>>
    /\ UNCHANGED <<intent_vars, store_vars, call_vars>>

TurnRequirementOutputs(session_id) ==
    {[i \in 1..Len(values) |->
        [requirement_type |-> "scale", requirement_value |-> values[i], session_id |-> e]] :
        values \in SeqsUpTo(RequirementValues, MaxTurnBatch),
        e \in {None, Some(session_id)}}

ExtractRequirementsTurnNode ==
    /\ turn.pc = "extract_requirements"
    /\ \E extracted_data \in TurnRequirementOutputs(turn.state.session_id) :
          LET x == extract_requirements(extracted_data, turn.state.extracted_requirements)
              state == [turn.state EXCEPT !.extracted_requirements = x.requirements]
              u == update_context(conversations_table, user_requirements_table, messages_table,
                                  now, turn.state.session_id, x.requirements, None, None, None)
          IN  IF x.raised
              THEN /\ turn' = NodeRaises(turn.state, "ValidationError")
                   /\ UNCHANGED conversations_table
              ELSE /\ turn' = [(IF u.raised THEN NodeRaises(state, "AttributeError")
                                           ELSE NodeReturns(state))
                                  EXCEPT !.requirement_stage = Some(x.requirements)]
                   /\ conversations_table' = u.table
    /\ UNCHANGED <<now, user_requirements_table, messages_table>>
    /\ UNCHANGED <<reply_call, alignment_call, aux_vars>>
    /\ UNCHANGED <<intent_vars, call_vars>>

\* The understanding call of extract_requirements raises or returns text
\* json.loads rejects.
ExtractRequirementsTurnNodeRaises ==
    /\ turn.pc = "extract_requirements"
    /\ turn' = NodeRaises(turn.state, "understanding call")
    /\ UNCHANGED <<reply_call, alignment_call, aux_vars>>
    /\ UNCHANGED <<intent_vars, store_vars, call_vars>>

\* ArchitectureRecommender.recommend_architecture: a Recommendation for the
\* requirement list, or none.
recommend_architecture(requirements, session_id) ==
    {None, Some([explanation |-> 1, services |-> <<1>>, diagram_url |-> None])}

GenerateRecommendationNode ==
    /\ turn.pc = "generate_recommendation"
    /\ \E recommendation \in recommend_architecture(turn.state.extracted_requirements,
                                                    turn.state.session_id) :
          turn' = NodeReturns([turn.state EXCEPT !.current_recommendation = recommendation])
    /\ UNCHANGED <<reply_call, alignment_call, aux_vars>>
    /\ UNCHANGED <<intent_vars, store_vars, call_vars>>

GenerateDiagramNode ==
    /\ turn.pc = "generate_diagram"
    /\ turn' = NodeReturns(
                  IF turn.state.current_recommendation = None THEN turn.state
                  ELSE [turn.state EXCEPT !.current_recommendation[1].diagram_url = Some(1)])
    /\ UNCHANGED <<reply_call, alignment_call, aux_vars>>
    /\ UNCHANGED <<intent_vars, store_vars, call_vars>>

\* The single-recommendation text of _format_response_node.
SingleRecommendationText(recommendation) ==
    <<Piece("intro", 0), Piece("services:", 0)>>
    \o [k \in 1..Len(recommendation.services) |-> Piece("service", recommendation.services[k])]
    \o <<Piece("explanation", recommendation.explanation)>>
    \o (IF recommendation.diagram_url # None
        THEN <<Piece("diagram_url", recommendation.diagram_url[1])>> ELSE <<>>)

FallbackApology == <<Piece("apology", 0)>>

\* The text _format_response_node computes for state.response_content.
ResponseContent(state, heap, intent_results) ==
    IF state.recognized_intents # <<>> /\ DOMAIN intent_results # {}
    THEN format_response(state.recognized_intents, heap, intent_results,
                         state.current_recommendation)
    ELSE IF state.current_recommendation # None
    THEN SingleRecommendationText(state.current_recommendation[1])
    ELSE FallbackApology

\* _format_response_node: process_intents, update_context, then the reply
\* is assigned to state.response_content and processing_complete is set.
FormatResponseNode ==
    /\ turn.pc = "format_response"
    /\ \E outcomes \in [1..Len(turn.heap) -> {"raise", "placeholder"}] :
          LET state == turn.state
              intent_results ==
                  IF state.recognized_intents # <<>>
                  THEN process_intents_results(state.recognized_intents, turn.heap, outcomes)
                  ELSE EmptyDict
              u == update_context(conversations_table, user_requirements_table, messages_table,
                                  now, state.session_id, <<>>,
                                  Some(state.recognized_intents),
                                  IF state.current_recommendation = None THEN None
                                  ELSE Some("r2"),
                                  None)
              text == ResponseContent(state, turn.heap, intent_results)
          IN  /\ conversations_table' = u.table
              /\ turn' =
                    IF u.raised
                    THEN [NodeRaises(state, "AttributeError")
                             EXCEPT !.intent_results = intent_results]
                    ELSE IF ~CanSetAttr("response_content")
                    THEN [NodeRaises(state, "ValueError")
                             EXCEPT !.intent_results = intent_results]
                    ELSE [NodeReturns([state EXCEPT !.processing_complete = TRUE])
                             EXCEPT !.intent_results = intent_results,
                                    !.reply = Some(text)]
    /\ UNCHANGED <<now, user_requirements_table, messages_table>>
    /\ UNCHANGED <<reply_call, alignment_call, aux_vars>>
    /\ UNCHANGED <<intent_vars, call_vars>>

NextTurn ==
    \/ \E session_id \in SessionIds : ProcessMessage(session_id)
    \/ ClassifyIntentsNode
    \/ ClassifyIntentsNodeRaises
    \/ ExtractRequirementsTurnNode
    \/ ExtractRequirementsTurnNodeRaises
    \/ GenerateRecommendationNode
    \/ GenerateDiagramNode
    \/ FormatResponseNode

SpecTurn == InitTurn /\ [][NextTurn]_vars

(***************************************************************************)
(* services/recommendation/well_architected.py.  A description is a list   *)
(* of words, the empty string the empty list.                              *)
(***************************************************************************)
Pillars ==
    {"operational_excellence", "security", "reliability", "performance_efficiency",
     "cost_optimization", "sustainability"}

\* _generate_default_alignment: the sentence of the pillar around the
\* joined service names; it is not empty even without services.
generate_default_alignment(pillar, services) == <<"default", pillar>> \o services

\* A mutant of check_alignment: the validator's map is kept and only the
\* pillars missing from it are filled in.
check_alignment_filling(services, alignment) ==
    [key \in DOMAIN alignment \cup Pillars |->
        IF key \in DOMAIN alignment THEN alignment[key]
        ELSE generate_default_alignment(key, services)]

\* check_alignment from the validator's well_architected_alignment on.
check_alignment(services, alignment) ==
    [pillar_key \in Pillars |->
        IF pillar_key \in DOMAIN alignment /\ alignment[pillar_key] # <<>>
        THEN alignment[pillar_key]
        ELSE generate_default_alignment(pillar_key, services)]

ServiceNames == {"EC2", "S3"}

\* validation_result.get("well_architected_alignment", {}): any pillars,
\* each with a description or the empty string, and possibly a key that is
\* no pillar.
ValidatorAlignments ==
    UNION {[keys -> {<<>>, <<"described">>}] : keys \in SUBSET (Pillars \cup {"other"})}

CheckAlignment ==
    /\ alignment_call.op = "none"
    /\ \E services \in SeqsUpTo(ServiceNames, MaxServices), alignment \in ValidatorAlignments :
          alignment_call' = [op |-> "check_alignment",
                             services |-> services,
                             alignment |-> alignment,
                             result |-> check_alignment(services, alignment)]
    /\ UNCHANGED <<reply_call, turn, aux_vars>>
    /\ UNCHANGED <<intent_vars, store_vars, call_vars>>

NextAlignment == CheckAlignment

SpecAlignment == InitSpecIntents /\ [][NextAlignment]_vars

(***************************************************************************)
(* Operations on two sessions side by side: one turn, and calls of         *)
(* resume_session and update_context on either session while the turn is   *)
(* under way.                                                              *)
(***************************************************************************)
IsolationTables ==
    {[sid \in SessionIds |->
         IF sid = "s1" THEN None ELSE Some(Conversation(sid, 0, 0, None))],
     [sid \in SessionIds |->
         IF sid = "s2" THEN None ELSE Some(Conversation(sid, 0, 0, None))],
     [sid \in SessionIds |->
         Some(Conversation(sid, 0, 0, Some(Context(sid, Some("r1"), <<>>, None, None, 0))))]}

InitIsolation ==
    /\ InitIntents
    /\ CallsInit
    /\ now = 0
    /\ conversations_table \in IsolationTables
    /\ user_requirements_table =
          [sid \in SessionIds |->
              <<[session_id |-> sid, requirement_type |-> "scale",
                 requirement_value |-> "v1"]>>]
    /\ messages_table = [sid \in SessionIds |-> <<>>]

\* A call on another session falls between the turn's load of its context
\* and the first save of the turn.
BesideTurn(session_id) ==
    /\ turn.pc = "extract_requirements"
    /\ turn.state.session_id # session_id
    /\ session_call.op = "none"
    /\ TurnIdle

ResumeSessionBeside(session_id) ==
    /\ BesideTurn(session_id)
    /\ ResumeSession(session_id)

\* The update_context call has at most one new requirement.
UpdateContextBeside(session_id) ==
    /\ BesideTurn(session_id)
    /\ UpdateContext(session_id)
    /\ Len(update_calls'[1].new_requirements) <= 1

NextIsolation ==
    \/ \E session_id \in SessionIds : ResumeSessionBeside(session_id)
    \/ \E session_id \in SessionIds : UpdateContextBeside(session_id)
    \/ NextTurn

SpecIsolation == InitIsolation /\ [][NextIsolation]_vars

(***************************************************************************)
(* Two requirement batches merged into a set in both orders.  The merge is *)
(* the one of update_context and of extract_requirements.                  *)
(***************************************************************************)
MergeRows ==
    {UserRequirement("s1", t, v)[1] : t \in InputRequirementTypes, v \in RequirementValues}

MergeBothOrders ==
    /\ merge_call.op = "none"
    /\ \E S \in SeqsUpTo(MergeRows, 1),
          A \in SeqsUpTo(MergeRows, MaxMergeBatch),
          B \in SeqsUpTo(MergeRows, MaxMergeBatch) :
          merge_call' = [op |-> "merge",
                         S |-> S,
                         A |-> A,
                         B |-> B,
                         a_then_b |-> AppendNewValues(AppendNewValues(S, A), B),
                         b_then_a |-> AppendNewValues(AppendNewValues(S, B), A)]
    /\ UNCHANGED <<summary_call, writers, price_state, limiter>>
    /\ UNCHANGED <<reply_call, turn, alignment_call>>
    /\ UNCHANGED <<intent_vars, store_vars, call_vars>>

NextMerge == MergeBothOrders

SpecMerge == InitSpecIntents /\ [][NextMerge]_vars

(***************************************************************************)
(* The read-modify-write of the session record.  resume_session and        *)
(* update_context each get the record, change their copy and hand it to    *)
(* ConversationRepository.update; other operations may run between the get *)
(* and the update.                                                         *)
(***************************************************************************)
WriterSession == "s1"

WriterKinds == {"resume_session", "update_context"}

InitWriters ==
    /\ InitIntents
    /\ CallsInit
    /\ now = 0
    /\ conversations_table \in {t \in IsolationTables : t[WriterSession] # None}
    /\ user_requirements_table =
          [sid \in SessionIds |->
              <<[session_id |-> sid, requirement_type |-> "scale",
                 requirement_value |-> "v1"]>>]
    /\ messages_table = [sid \in SessionIds |-> <<>>]

WriterTick ==
    /\ now < MaxWriterTime
    /\ Tick

\* The copy of the record an operation holds after its get, with its change.
ChangedCopy(kind) ==
    LET conversation == get_by_session_id(conversations_table, WriterSession)[1]
    IN  IF kind = "resume_session"
        THEN [conversation EXCEPT !.last_accessed_at = now]
        ELSE [conversation EXCEPT !.current_context =
                 Some(update_context(conversations_table, user_requirements_table,
                                     messages_table, now, WriterSession, <<>>, None,
                                     Some("r2"), None).context)]

\* The operation gets the record and changes its copy.  It overlaps the
\* operations that hold a copy they have not handed to update yet.
WriterGet(kind) ==
    /\ kind \notin DOMAIN writers
    /\ validate_session(conversations_table, now, WriterSession)
    /\ LET others == {k \in DOMAIN writers : writers[k].pc = "put"}
       IN  writers' = [k \in DOMAIN writers \cup {kind} |->
                          IF k = kind
                          THEN [pc |-> "put", local |-> ChangedCopy(kind),
                                overlapped |-> others # {}, last |-> FALSE]
                          ELSE IF k \in others
                          THEN [writers[k] EXCEPT !.overlapped = TRUE]
                          ELSE writers[k]]
    /\ UNCHANGED <<merge_call, summary_call, price_state, limiter>>
    /\ UNCHANGED <<reply_call, turn, alignment_call>>
    /\ UNCHANGED <<intent_vars, store_vars, call_vars>>

\* The operation hands its copy to ConversationRepository.update.
WriterPut(kind) ==
    /\ kind \in DOMAIN writers
    /\ writers[kind].pc = "put"
    /\ LET saved == ConversationRepository_update(conversations_table, writers[kind].local)
       IN  /\ conversations_table' = saved.table
           /\ writers' = [k \in DOMAIN writers |->
                            IF k = kind
                            THEN [writers[k] EXCEPT
                                     !.pc = IF saved.raised THEN "raised" ELSE "done",
                                     !.last = TRUE]
                            ELSE [writers[k] EXCEPT !.last = FALSE]]
    /\ UNCHANGED <<now, user_requirements_table, messages_table>>
    /\ UNCHANGED <<merge_call, summary_call, price_state, limiter>>
    /\ UNCHANGED <<reply_call, turn, alignment_call>>
    /\ UNCHANGED <<intent_vars, call_vars>>

NextWriters ==
    \/ WriterTick
    \/ \E kind \in WriterKinds : WriterGet(kind)
    \/ \E kind \in WriterKinds : WriterPut(kind)

SpecWriters == InitWriters /\ [][NextWriters]_vars

(***************************************************************************)
(* _summarize_conversation on message lists of chosen content lengths.     *)
(***************************************************************************)
ContentLengths == {88, 89, 130}

MessagesOfLengths(lengths) ==
    [i \in 1..Len(lengths) |-> Message("s1", USER, Text(i, lengths[i]), 0)]

SummarizeConversation ==
    /\ summary_call.op = "none"
    /\ \E lengths \in SeqsUpTo(ContentLengths, MaxMessages) :
          summary_call' = [op |-> "summarize_conversation",
                           lengths |-> lengths,
                           summary |-> summarize_conversation(MessagesOfLengths(lengths))]
    /\ UNCHANGED <<merge_call, writers, price_state, limiter>>
    /\ UNCHANGED <<reply_call, turn, alignment_call>>
    /\ UNCHANGED <<intent_vars, store_vars, call_vars>>

NextSummary == SummarizeConversation

SpecSummary == InitSpecIntents /\ [][NextSummary]_vars

(***************************************************************************)
(* services/pricing/cache.py and services/pricing/calculator.py.  Time is  *)
(* in hours, a price in units per hour.                                    *)
(***************************************************************************)
CacheTtlHours == 24

\* service_code_map.get(service.aws_service_name)
service_code(aws_service_name) ==
    IF aws_service_name = "EC2" THEN Some("AmazonEC2")
    ELSE IF aws_service_name = "RDS" THEN Some("AmazonRDS")
    ELSE IF aws_service_name = "S3" THEN Some("AmazonS3")
    ELSE IF aws_service_name = "Lambda" THEN Some("AWSLambda")
    ELSE None

\* An entry of the cache: the price data, the time set_cached_price stamped
\* on it and the time to live it was stored with.
CacheEntry(price, cached_at, ttl_hours) ==
    [price |-> price, cached_at |-> Some(cached_at), ttl_hours |-> ttl_hours]

\* get_cached_price: Redis returns an entry until its time to live is over.
get_cached_price(cache, clock) ==
    IF cache # None /\ clock - cache[1].cached_at[1] < cache[1].ttl_hours
    THEN cache
    ELSE None

\* set_cached_price: the data is stamped and stored with the time to live
\* of this process.
set_cached_price(price, clock) == Some(CacheEntry(price, clock, CacheTtlHours))

\* A mutant of is_cache_fresh: an entry of exactly the maximum age is fresh.
is_cache_fresh_inclusive(cached_data, clock) ==
    IF cached_data.cached_at = None THEN FALSE
    ELSE clock - cached_data.cached_at[1] <= CacheTtlHours

is_cache_fresh(cached_data, clock) ==
    IF cached_data.cached_at = None THEN FALSE
    ELSE clock - cached_data.cached_at[1] < CacheTtlHours

\* ServiceCost with monthly_cost 0.00 and a note in usage_estimate.
ZeroCost(aws_service_name, note) ==
    [service_name |-> aws_service_name, monthly_cost |-> 0,
     note |-> Some(note), data_source |-> None, hourly_price |-> None]

MonthlyHours == 730

\* The outcomes of AWSPricingClient.get_price: it raises, or returns data
\* with price None, with price 0.0, or with a price above zero.
RemoteOutcomes == {"raises", "no price", "zero price", "price"}
RemotePrice == 3

\* price_data.get("price") of the data get_price returned
remote_price(remote) ==
    IF remote = "price" THEN Some(RemotePrice)
    ELSE IF remote = "zero price" THEN Some(0)
    ELSE None

\* The truth value Python gives an optional number.
Truthy(number) == number # None /\ number[1] # 0

\* _calculate_service_cost for a service, the cache as it is, and the
\* outcome the remote call has if it is made.
calculate_service_cost(aws_service_name, cache, clock, remote) ==
    IF service_code(aws_service_name) = None
    THEN [raised |-> FALSE, remote_called |-> FALSE, cache |-> cache,
          cost |-> ZeroCost(aws_service_name, "Pricing not available for this service")]
    ELSE
    LET cached_price == get_cached_price(cache, clock)
        use_cache == cached_price # None /\ is_cache_fresh(cached_price[1], clock)
        \* price_data and data_source after the if / try / except
        price_data ==
            IF use_cache THEN Some(cached_price[1].price)
            ELSE IF remote # "raises" THEN remote_price(remote)
            ELSE IF cached_price # None THEN Some(cached_price[1].price)
            ELSE None
        data_source ==
            IF use_cache THEN "cache"
            ELSE IF remote # "raises" THEN "api"
            ELSE IF cached_price # None THEN "cache_stale"
            ELSE "cache"
        cache_after ==
            IF ~use_cache /\ remote # "raises" /\ Truthy(remote_price(remote))
            THEN set_cached_price(remote_price(remote)[1], clock)
            ELSE cache
    IN  [raised |-> FALSE,
         remote_called |-> ~use_cache,
         cache |-> cache_after,
         cost |-> IF ~Truthy(price_data)
                  THEN ZeroCost(aws_service_name, "Pricing data unavailable")
                  ELSE [service_name |-> aws_service_name,
                        monthly_cost |-> price_data[1] * MonthlyHours,
                        note |-> None,
                        data_source |-> Some(data_source),
                        hourly_price |-> price_data]]

PricedServices == {"EC2", "DynamoDB"}
TickHours == 12
CachedPrice == 2

\* The cache holds nothing, or an entry an earlier process stored at hour 0
\* with its own PRICING_CACHE_TTL_HOURS.
InitPricing ==
    /\ InitIntents
    /\ StoresIdle
    /\ CallsIdle
    /\ MergeIdle
    /\ SummaryIdle
    /\ WritersIdle
    /\ LimiterIdle
    /\ \E cache \in {None} \cup {Some(CacheEntry(CachedPrice, 0, ttl)) : ttl \in {24, 48}} :
          price_state = [clock |-> 0, cache |-> cache, call |-> [op |-> "none"]]

PricingTick ==
    /\ price_state.clock + TickHours <= MaxPricingHours
    /\ price_state' = [price_state EXCEPT !.clock = @ + TickHours]
    /\ UNCHANGED <<merge_call, summary_call, writers, limiter>>
    /\ UNCHANGED <<reply_call, turn, alignment_call>>
    /\ UNCHANGED <<intent_vars, store_vars, call_vars>>

CalculateServiceCost ==
    /\ \E aws_service_name \in PricedServices, remote \in RemoteOutcomes :
          LET r == calculate_service_cost(aws_service_name, price_state.cache,
                                          price_state.clock, remote)
          IN  price_state' = [clock |-> price_state.clock,
                              cache |-> r.cache,
                              call |-> [op |-> "calculate_service_cost",
                                        at |-> price_state.clock,
                                        service |-> aws_service_name,
                                        remote |-> remote,
                                        cache_before |-> price_state.cache,
                                        raised |-> r.raised,
                                        remote_called |-> r.remote_called,
                                        cost |-> r.cost]]
    /\ UNCHANGED <<merge_call, summary_call, writers, limiter>>
    /\ UNCHANGED <<reply_call, turn, alignment_call>>
    /\ UNCHANGED <<intent_vars, store_vars, call_vars>>

NextPricing ==
    \/ PricingTick
    \/ CalculateServiceCost

SpecPricing == InitPricing /\ [][NextPricing]_vars

(***************************************************************************)
(* api/middleware/rate_limiter.py.  Every call of the Redis wrapper is one *)
(* step; the workers of the service share the Redis keys and nothing else. *)
(***************************************************************************)
SessionLimit == 60
IpLimit == 1000
Workers == {"w1", "w2"}

\* RedisClient.get, exists and set on the two counter keys of one session
\* and one client address.
redis_get(redis, key) == redis[key]
redis_exists(redis, key) == redis[key] # None
redis_set(redis, key, value) == [redis EXCEPT ![key] = Some(value)]

\* `self.redis.get(key) or 0` followed by the conversion to int
count_of(value) == IF value = None THEN 0 ELSE value[1]

WorkerIdle == [pc |-> "idle", requests |-> 0, to_set |-> 0, wrote |-> FALSE]

\* The counters are absent or hold the count of the requests served so far.
InitLimiter ==
    /\ InitIntents
    /\ StoresIdle
    /\ CallsIdle
    /\ MergeIdle
    /\ SummaryIdle
    /\ WritersIdle
    /\ PricingIdle
    /\ \E session_count \in {None, Some(SessionLimit - 2)}, ip_count \in {None, Some(IpLimit - 2)} :
          limiter = [op |-> "check_rate_limit",
                     redis |-> [session |-> session_count, ip |-> ip_count],
                     allowed |-> count_of(session_count),
                     workers |-> [w \in Workers |-> WorkerIdle]]

LimiterStep(w, worker, redis, allowed) ==
    /\ limiter' = [limiter EXCEPT !.workers[w] = worker, !.redis = redis,
                                  !.allowed = allowed]
    /\ UNCHANGED <<merge_call, summary_call, writers, price_state>>
    /\ UNCHANGED <<reply_call, turn, alignment_call>>
    /\ UNCHANGED <<intent_vars, store_vars, call_vars>>

\* Lines 45-58: a request enters check_rate_limit, the address counter is
\* read and tested.
CheckIpLimit(w) ==
    /\ limiter.op = "check_rate_limit"
    /\ limiter.workers[w].pc \in {"idle", "allowed", "refused"}
    /\ limiter.workers[w].requests < MaxLimiterRequests
    /\ \E with_session \in BOOLEAN :
          LET ip_count == count_of(redis_get(limiter.redis, "ip"))
              worker == [pc |-> IF ip_count >= IpLimit THEN "refused"
                                ELSE IF with_session THEN "read_session"
                                ELSE "exists_ip",
                         requests |-> limiter.workers[w].requests + 1,
                         to_set |-> 0,
                         wrote |-> FALSE]
          IN  LimiterStep(w, worker, limiter.redis, limiter.allowed)

\* Lines 59-68: the session counter is read and tested.
CheckSessionLimit(w) ==
    /\ limiter.op = "check_rate_limit"
    /\ limiter.workers[w].pc = "read_session"
    /\ LET session_count == count_of(redis_get(limiter.redis, "session"))
           worker == [limiter.workers[w] EXCEPT
                         !.pc = IF session_count >= SessionLimit THEN "refused"
                                ELSE "exists_session"]
       IN  LimiterStep(w, worker, limiter.redis, limiter.allowed)

\* Lines 71 and 78: does the key exist.
Exists(w, key) ==
    /\ limiter.op = "check_rate_limit"
    /\ limiter.workers[w].pc = "exists_" \o key
    /\ LET worker == IF ~redis_exists(limiter.redis, key)
                     THEN [limiter.workers[w] EXCEPT !.pc = "set_" \o key, !.to_set = 1]
                     ELSE [limiter.workers[w] EXCEPT !.pc = "get_" \o key]
       IN  LimiterStep(w, worker, limiter.redis, limiter.allowed)

\* Lines 74 and 81: current = int(self.redis.get(key) or 0).
Get(w, key) ==
    /\ limiter.op = "check_rate_limit"
    /\ limiter.workers[w].pc = "get_" \o key
    /\ LET current == count_of(redis_get(limiter.redis, key))
           worker == [limiter.workers[w] EXCEPT !.pc = "set_" \o key,
                                                !.to_set = current + 1]
       IN  LimiterStep(w, worker, limiter.redis, limiter.allowed)

\* Lines 72, 75, 79, 82: the counter is set, with a new time to live.  The
\* request is counted in the lifetime of the session key in which it sets it;
\* a set of an absent key begins a lifetime.
Set(w, key) ==
    /\ limiter.op = "check_rate_limit"
    /\ limiter.workers[w].pc = "set_" \o key
    /\ LET worker == [limiter.workers[w] EXCEPT
                         !.pc = IF key = "session" THEN "exists_ip" ELSE "allowed",
                         !.to_set = 0,
                         !.wrote = TRUE]
           allowed == IF key # "session" THEN limiter.allowed
                      ELSE IF redis_exists(limiter.redis, key) THEN limiter.allowed + 1
                      ELSE 1
       IN  LimiterStep(w, worker,
                       redis_set(limiter.redis, key, limiter.workers[w].to_set),
                       allowed)

\* Redis removes the session key when its time to live is over.
ExpireSession ==
    /\ limiter.op = "check_rate_limit"
    /\ redis_exists(limiter.redis, "session")
    /\ limiter' = [limiter EXCEPT !.redis.session = None, !.allowed = 0]
    /\ UNCHANGED <<merge_call, summary_call, writers, price_state>>
    /\ UNCHANGED <<reply_call, turn, alignment_call>>
    /\ UNCHANGED <<intent_vars, store_vars, call_vars>>

NextLimiter ==
    \/ \E w \in Workers : CheckIpLimit(w)
    \/ \E w \in Workers : CheckSessionLimit(w)
    \/ \E w \in Workers, key \in {"session", "ip"} : Exists(w, key)
    \/ \E w \in Workers, key \in {"session", "ip"} : Get(w, key)
    \/ \E w \in Workers, key \in {"session", "ip"} : Set(w, key)
    \/ ExpireSession

SpecLimiter == InitLimiter /\ [][NextLimiter]_vars

(***************************************************************************)
(* Properties of intent classification and processing.                     *)
(***************************************************************************)
InputIds == {proc_input[i] : i \in 1..Len(proc_input)}
HandlerRaised(id) == \E k \in 1..Len(handler_log) : handler_log[k] = <<"raise", id>>
HandlerReturned(id) == \E k \in 1..Len(handler_log) : handler_log[k] = <<"return", id>>

\* C1: when the handler of an intent raises, that intent is failed and its
\* recorded result is {error, success: false}; when process_intents returns,
\* the mapping has exactly one entry per input intent and every intent whose
\* handler did not raise is completed with its own successful result.
C1_PartialFailureIsolated ==
    /\ \A id \in InputIds :
          HandlerRaised(id) =>
              /\ intent_heap[id].status = FAILED
              /\ UuidKey(id) \in DOMAIN results
              /\ results[UuidKey(id)] = [error |-> "e", success |-> FALSE]
    /\ pc = "done" =>
          /\ DOMAIN results = {UuidKey(id) : id \in InputIds}
          /\ \A id \in InputIds :
                ~HandlerRaised(id) =>
                    /\ intent_heap[id].status = COMPLETED
                    /\ results[UuidKey(id)].success = TRUE
                    /\ results[UuidKey(id)].intent_id = <<"str", id>>

\* Three intents, the handler of the second one raised, the others completed.
C1_Witness ==
    /\ pc = "done"
    /\ Len(sorted_intents) = 3
    /\ HandlerRaised(sorted_intents[2])
    /\ HandlerReturned(sorted_intents[1])
    /\ HandlerReturned(sorted_intents[3])

AllowedTransition(a, b) ==
    \/ a = b
    \/ a = PENDING /\ b = PROCESSING
    \/ a = PROCESSING /\ b \in {COMPLETED, FAILED}

StartsOf(id) == Cardinality({k \in 1..Len(handler_log) : handler_log[k] = <<"start", id>>})

\* C2: an intent returned by classify_intents is pending; a status only moves
\* pending -> processing -> completed | failed; no intent is handled twice;
\* when process_intents returns every input intent is completed or failed.
C2_StatusStateMachine ==
    /\ [](pc = "classified" =>
            \A id \in DOMAIN intent_heap : intent_heap[id].status = PENDING)
    /\ [](\A id \in DOMAIN intent_heap : StartsOf(id) <= 1)
    /\ [](pc = "done" =>
            \A id \in InputIds : intent_heap[id].status \in {COMPLETED, FAILED})
    /\ [][\A id \in (DOMAIN intent_heap) \cap (DOMAIN intent_heap') :
            AllowedTransition(intent_heap[id].status, intent_heap'[id].status)]_vars

\* process_intents returned after a handler failed and another completed.
C2_Witness ==
    /\ pc = "done"
    /\ \E a, b \in InputIds :
          intent_heap[a].status = FAILED /\ intent_heap[b].status = COMPLETED

PositionIn(s, x) == CHOOSE i \in 1..Len(s) : s[i] = x

\* a precedes b in the stable priority order of the input list.
PrecedesInPriorityOrder(a, b) ==
    \/ intent_heap[a].priority < intent_heap[b].priority
    \/ /\ intent_heap[a].priority = intent_heap[b].priority
       /\ PositionIn(proc_input, a) < PositionIn(proc_input, b)

\* C3: handlers run one at a time; a handler starts only after the handler
\* of every intent that precedes it in ascending priority (ties in input
\* order) has finished.
C3_PriorityOrderProcessing ==
    \A k \in 1..Len(handler_log) :
        handler_log[k][1] = "start" =>
            /\ \A other \in InputIds :
                  PrecedesInPriorityOrder(other, handler_log[k][2]) =>
                      \E j \in 1..(k - 1) :
                          /\ handler_log[j][2] = other
                          /\ handler_log[j][1] \in {"return", "raise"}
            /\ k < Len(handler_log) =>
                  /\ handler_log[k + 1][2] = handler_log[k][2]
                  /\ handler_log[k + 1][1] \in {"return", "raise"}

\* Three intents were handled, the input list was not in priority order and
\* two of the intents have the same priority.
C3_Witness ==
    /\ pc = "done"
    /\ Len(proc_input) = 3
    /\ proc_input # sorted_intents
    /\ \E a, b \in InputIds : a # b /\ intent_heap[a].priority = intent_heap[b].priority
    /\ \E a, b \in InputIds : intent_heap[a].priority < intent_heap[b].priority

\* The order of the categories stated by the specification.
CategoryRank(intent_type) ==
    IF intent_type \in {"architecture_request", "modification"} THEN 1
    ELSE IF intent_type = "pricing_query" THEN 2
    ELSE 3

\* C4: classify_intents returns one intent per tuple of the understanding
\* call, sorted architecture_request/modification, then pricing_query, then
\* clarification, intents of equal priority in the order of the call.
C4_ClassifySortedStable ==
    pc \in {"classified", "loop", "handler", "done"} =>
        /\ Len(recognized_intents) = Len(llm_intents)
        /\ {recognized_intents[i] : i \in 1..Len(recognized_intents)} = 1..Len(llm_intents)
        /\ DOMAIN intent_heap = 1..Len(llm_intents)
        /\ \A i \in 1..Len(llm_intents) :
              /\ intent_heap[i].intent_type = llm_intents[i].intent_type
              /\ intent_heap[i].confidence =
                    (IF llm_intents[i].confidence = <<>> THEN 8 ELSE llm_intents[i].confidence[1])
        /\ \A i, j \in 1..Len(recognized_intents) :
              i < j =>
                  LET a == intent_heap[recognized_intents[i]]
                      b == intent_heap[recognized_intents[j]]
                  IN  /\ a.priority <= b.priority
                      /\ CategoryRank(a.intent_type) <= CategoryRank(b.intent_type)
                      /\ a.priority = b.priority => recognized_intents[i] < recognized_intents[j]

\* The understanding call returned a clarification, a pricing query and two
\* priority-1 intents, in that order.
C4_Witness ==
    /\ pc = "classified"
    /\ Len(llm_intents) = 3
    /\ llm_intents[1].intent_type = "clarification"
    /\ llm_intents[2].intent_type = "modification"
    /\ llm_intents[3].intent_type = "architecture_request"
    /\ recognized_intents = <<2, 3, 1>>

\* The fixed priority of a category.
FixedPriority(intent_type) ==
    IF intent_type = "architecture_request" THEN 1
    ELSE IF intent_type = "modification" THEN 1
    ELSE IF intent_type = "pricing_query" THEN 2
    ELSE 3

\* C5: every Intent, classified or constructed from stored data with any
\* priority, has the fixed priority of its category, in every state from
\* classification through processing.
C5_PriorityFixedByCategory ==
    /\ \A id \in DOMAIN intent_heap :
          intent_heap[id].priority = FixedPriority(intent_heap[id].intent_type)
    /\ \A i \in DOMAIN loaded_intents :
          loaded_intents[i].priority = FixedPriority(loaded_intents[i].intent_type)

\* An Intent was constructed from an item whose priority disagrees with its
\* category.
C5_Witness ==
    /\ pc = "loaded"
    /\ \E i \in DOMAIN stored_items :
          /\ stored_items[i].priority # FixedPriority(stored_items[i].intent_type)
          /\ loaded_intents[i].intent_type = stored_items[i].intent_type

\* Processing finished for intents of all three priorities.
C5_WitnessProcessed ==
    /\ pc = "done"
    /\ {intent_heap[id].priority : id \in InputIds} = {1, 2, 3}

(***************************************************************************)
(* Properties of requirement merging.                                      *)
(***************************************************************************)
SameValueIn(S, r) ==
    \E i \in 1..Len(S) : S[i].requirement_value = r.requirement_value

MergedOne(S, r, result) ==
    IF SameValueIn(S, r)
    THEN result = S
    ELSE result = Append(S, r) /\ Len(result) = Len(S) + 1

\* The single-requirement merges on record: extract_requirements returned
\* after merging a one-entry answer into a non-empty previous list;
\* update_context merged a one-element list into the requirements of an
\* existing context.
ExtractMergedOne ==
    /\ extract_call.op = "extract_requirements"
    /\ ~extract_call.raised
    /\ extract_call.previous # <<>>
    /\ Len(extract_call.extracted_data) = 1

UpdateMergedOne(i) ==
    /\ i \in 1..Len(update_calls)
    /\ update_calls[i].existing # None
    /\ update_calls[i].existing[1].extracted_requirements # <<>>
    /\ Len(update_calls[i].new_requirements) = 1

\* C6: merging one requirement r into a non-empty active set S, in
\* extract_requirements and in update_context on an existing context, leaves
\* S unchanged when some requirement of S has the value of r, whatever its
\* category, and otherwise gives S plus r, one requirement more.
C6_MergeOneRequirement ==
    /\ ExtractMergedOne =>
          MergedOne(extract_call.previous,
                    BuiltRequirements(extract_call.extracted_data)[1][1],
                    extract_call.requirements)
    /\ \A i \in 1..Len(update_calls) :
          UpdateMergedOne(i) =>
              MergedOne(update_calls[i].existing[1].extracted_requirements,
                        update_calls[i].new_requirements[1],
                        update_calls[i].context.extracted_requirements)

\* extract_requirements has merged a requirement whose value the set holds
\* under another category only, and the set is unchanged.
C6_Witness ==
    /\ ExtractMergedOne
    /\ LET r == BuiltRequirements(extract_call.extracted_data)[1][1]
           S == extract_call.previous
       IN  /\ SameValueIn(S, r)
           /\ \A i \in 1..Len(S) :
                 S[i].requirement_value = r.requirement_value =>
                     S[i].requirement_type # r.requirement_type
           /\ extract_call.requirements = S

\* update_context has merged a requirement with a new value into the
\* requirements of an existing context.
C6_WitnessUpdateContext ==
    /\ UpdateMergedOne(1)
    /\ ~SameValueIn(update_calls[1].existing[1].extracted_requirements,
                    update_calls[1].new_requirements[1])
    /\ Len(update_calls[1].context.extracted_requirements) =
          Len(update_calls[1].existing[1].extracted_requirements) + 1

StoredRequirements(conversation) ==
    IF conversation = None \/ conversation[1].current_context = None
    THEN <<>>
    ELSE conversation[1].current_context[1].extracted_requirements

\* C7: update_context called twice in a row with the same new requirements
\* returns a Context both times, the second with the requirement set of the
\* first, and the stored session context holds the same requirement set
\* after the second call as after the first.
C7_UpdateContextIdempotent ==
    Len(update_calls) = 2 =>
        /\ ~update_calls[1].raised
        /\ ~update_calls[2].raised
        /\ update_calls[2].context.extracted_requirements =
              update_calls[1].context.extracted_requirements
        /\ StoredRequirements(update_calls[2].stored) =
              StoredRequirements(update_calls[1].stored)

NoTwoShareCategoryAndValue(S) ==
    \A i, j \in 1..Len(S) :
        (/\ S[i].requirement_type = S[j].requirement_type
         /\ S[i].requirement_value = S[j].requirement_value) => i = j

\* C8: no two requirements of a session's active requirement set share
\* category and value, in the rows of the requirement table, in the list
\* extract_requirements returns and in the Context update_context returns,
\* a first merge into an empty or absent set and an answer that repeats a
\* value included.
C8_NoTwoShareCategoryAndValue ==
    /\ \A sid \in SessionIds : NoTwoShareCategoryAndValue(user_requirements_table[sid])
    /\ (extract_call.op = "extract_requirements" /\ ~extract_call.raised) =>
          NoTwoShareCategoryAndValue(extract_call.requirements)
    /\ \A i \in 1..Len(update_calls) :
          ~update_calls[i].raised =>
              NoTwoShareCategoryAndValue(update_calls[i].context.extracted_requirements)

(***************************************************************************)
(* Properties of session validation and resumption.                        *)
(***************************************************************************)
\* C9: validate_session returns True only for a session that exists and
\* whose expiry is strictly after the current time; at expiry = current time
\* validate_session returns False and is_session_expired returns True.
C9_ValidOnlyStrictlyBeforeExpiry ==
    /\ (session_call.op = "validate_session" /\ session_call.result) =>
          /\ conversations_table[session_call.session_id] # None
          /\ session_call.at < conversations_table[session_call.session_id][1].expires_at
    /\ (/\ session_call.op = "is_session_expired"
        /\ session_call.at = conversations_table[session_call.session_id][1].expires_at) =>
          session_call.result

\* C10: resume_session on a session that does not validate returns None and
\* leaves the table as it was; on a valid session it returns the
\* conversation with last_accessed_at set to the current time, and the table
\* holds that record.
C10_ResumeSession ==
    session_call.op = "resume_session" =>
        LET sid == session_call.session_id
            before == session_call.before
        IN  IF validate_session(before, session_call.at, sid)
            THEN LET touched == [before[sid][1] EXCEPT !.last_accessed_at = session_call.at]
                 IN  /\ ~session_call.raised
                     /\ session_call.result = Some(touched)
                     /\ conversations_table = [before EXCEPT ![sid] = Some(touched)]
            ELSE /\ ~session_call.raised
                 /\ session_call.result = None
                 /\ conversations_table = before

\* C20: a session is created with expires_at = created_at + 30 days: the
\* creation call stores and returns such a record; every stored session has
\* expires_at = created_at + 30 days; and no step removes a stored session or
\* changes its created_at or expires_at.
C20_ExpiryFixedAtCreation ==
    /\ [](session_call.op = "create_conversation" =>
            /\ ~session_call.raised
            /\ session_call.result # None
            /\ session_call.result[1].created_at = session_call.at
            /\ session_call.result[1].expires_at = session_call.at + TtlDays
            /\ conversations_table[session_call.session_id] = session_call.result)
    /\ [](\A sid \in SessionIds :
            conversations_table[sid] # None =>
                conversations_table[sid][1].expires_at
                    = conversations_table[sid][1].created_at + TtlDays)
    /\ [][\A sid \in SessionIds :
            conversations_table[sid] # None =>
                /\ conversations_table'[sid] # None
                /\ conversations_table'[sid][1].created_at
                      = conversations_table[sid][1].created_at
                /\ conversations_table'[sid][1].expires_at
                      = conversations_table[sid][1].expires_at]_vars

(***************************************************************************)
(* Properties of the aggregated result and of the reply text.              *)
(***************************************************************************)
ReplyIds == 1..Len(reply_call.intents)

TypeOf(id) == reply_call.heap[id].intent_type

LayoutRank(intent_type) ==
    IF intent_type \in {ARCHITECTURE_REQUEST, MODIFICATION} THEN 1
    ELSE IF intent_type = PRICING_QUERY THEN 2
    ELSE 3

HeadingRank(piece) ==
    IF piece = Piece("## architecture", 0) THEN 1
    ELSE IF piece = Piece("## pricing", 0) THEN 2
    ELSE IF piece = Piece("## clarification", 0) THEN 3
    ELSE 0

InText(piece) == \E k \in 1..Len(reply_call.text) : reply_call.text[k] = piece

\* C11: for any order of the intents given, the content parts of
\* aggregate_results come by priority, those of architecture_request and
\* modification intents before those of pricing_query intents before those
\* of clarification intents; in the text of format_response the
\* architecture section precedes the pricing sections, which precede the
\* clarification sections.
C11_LaidOutByPriority ==
    /\ reply_call.op = "aggregate_results" =>
          LET parts == reply_call.aggregated.content_parts
          IN  \A i, j \in 1..Len(parts) :
                  i < j => LayoutRank(TypeOf(parts[i][2])) <= LayoutRank(TypeOf(parts[j][2]))
    /\ reply_call.op = "format_response" =>
          LET text == reply_call.text
          IN  \A i, j \in 1..Len(text) :
                  (i < j /\ HeadingRank(text[i]) > 0 /\ HeadingRank(text[j]) > 0) =>
                      HeadingRank(text[i]) <= HeadingRank(text[j])

\* aggregate_results was given a clarification, a pricing_query and an
\* architecture_request, in this order, all three successful with content.
C11_Witness ==
    /\ reply_call.op = "aggregate_results"
    /\ Len(reply_call.intents) = 3
    /\ TypeOf(1) = CLARIFICATION /\ TypeOf(2) = PRICING_QUERY /\ TypeOf(3) = ARCHITECTURE_REQUEST
    /\ reply_call.aggregated.content_parts =
          <<Piece("content", 3), Piece("content", 2), Piece("content", 1)>>

\* format_response has rendered the three sections for intents given in the
\* opposite order.
C11_WitnessFormat ==
    /\ reply_call.op = "format_response"
    /\ Len(reply_call.intents) = 3
    /\ TypeOf(1) = CLARIFICATION /\ TypeOf(2) = PRICING_QUERY /\ TypeOf(3) = ARCHITECTURE_REQUEST
    /\ InText(Piece("## architecture", 0))
    /\ InText(Piece("## pricing", 0))
    /\ InText(Piece("## clarification", 0))

\* The intent has a result in the mapping given, and its success is true.
Succeeded(id) ==
    /\ StrKey(id) \in DOMAIN reply_call.intent_results
    /\ GetSuccess(reply_call.intent_results[StrKey(id)])

\* C12: only results with success true contribute to the reply.  An intent
\* without a result or with success false adds no content part, no
\* recommendation, no pricing and no metadata in aggregate_results, and no
\* section of format_response is rendered for it, the architecture section
\* included.
C12_OnlySuccessfulContribute ==
    /\ reply_call.op = "aggregate_results" =>
          LET aggregated == reply_call.aggregated
          IN  /\ \A k \in 1..Len(aggregated.content_parts) :
                    Succeeded(aggregated.content_parts[k][2])
              /\ \A k \in 1..Len(aggregated.recommendations) :
                    Succeeded(aggregated.recommendations[k][2])
              /\ aggregated.pricing # None => Succeeded(aggregated.pricing[1].total_monthly_cost)
              /\ \A id \in aggregated.metadata : Succeeded(id)
    /\ reply_call.op = "format_response" =>
          /\ InText(Piece("## architecture", 0)) =>
                \E id \in ReplyIds :
                    TypeOf(id) \in {ARCHITECTURE_REQUEST, MODIFICATION} /\ Succeeded(id)
          /\ \A id \in ReplyIds :
                ~Succeeded(id) =>
                    /\ ~InText(Piece("total", id))
                    /\ ~InText(Piece("cost", id))
                    /\ ~InText(Piece("content", id))

\* C13: the result process_intents records for an intent is the one the
\* aggregator and the formatter read for it.  With the mapping handed on
\* unchanged, a pricing_query whose result carries pricing makes the
\* aggregated pricing non-empty and the pricing section present, and the
\* content of a clarification is rendered.
C13_RecordedResultIsRead ==
    reply_call.op = "process_intents" =>
        \A id \in ReplyIds :
            LET result == reply_call.intent_results[UuidKey(id)]
            IN  /\ (TypeOf(id) = PRICING_QUERY /\ "pricing" \in DOMAIN result) =>
                      /\ reply_call.aggregated.pricing # None
                      /\ InText(Piece("## pricing", 0))
                /\ (TypeOf(id) = CLARIFICATION /\ "content" \in DOMAIN result) =>
                      InText(result.content)

(***************************************************************************)
(* Properties of the turn.                                                 *)
(***************************************************************************)
TurnOver == turn.pc \in {"END", "raised"}

StageEntered(stage) ==
    /\ turn.pc # "none"
    /\ \E k \in 1..Len(turn.log) : turn.log[k] = stage

\* C14: a failure of the understanding call, in the classify stage or in
\* the requirement stage, never aborts the turn: no turn ends with the
\* exception of an understanding call, the stages after it still run.
C14_UnderstandingFailureNeverAborts ==
    turn.pc = "raised" => turn.error # "understanding call"

\* C15: the format stage always leaves a non-empty reply and sets
\* processing_complete: the multi-intent text or its fallback with intents
\* and results, the single-recommendation text with a recommendation only,
\* the apology otherwise.
C15_FormatStageLeavesReply ==
    StageEntered("format_response") =>
        /\ turn.pc = "END"
        /\ turn.state.processing_complete
        /\ turn.reply # None
        /\ turn.reply[1] # <<>>
        /\ turn.reply[1] = ResponseContent(turn.state, turn.heap, turn.intent_results)

\* C16: every turn runs the five stages classify intents, extract
\* requirements, generate recommendation, generate diagram, format response
\* in this order, each once, and processing_complete is true only once the
\* format stage is over.
C16_FiveStagesInOrder ==
    /\ TurnOver => turn.log = Stages
    /\ (turn.pc # "none" /\ turn.state.processing_complete) => turn.pc = "END"

\* C17: update_context writes the Context it returns back into the
\* session: after a call that returned, the stored conversation of the
\* session holds the returned Context as its current_context.
C17_ReturnedContextIsStored ==
    \A i \in 1..Len(update_calls) :
        ~update_calls[i].raised =>
            /\ update_calls[i].stored # None
            /\ update_calls[i].stored[1].current_context = Some(update_calls[i].context)

Holds(requirements, r) == \E k \in 1..Len(requirements) : requirements[k] = r

\* C18: requirements survive across turns.  After a turn on an existing
\* session whose requirement stage produced the merged list R, the stored
\* context of the session and the Context retrieve_context returns for the
\* next turn both hold every requirement of R.
C18_RequirementsSurviveTurns ==
    (/\ TurnOver
     /\ turn.requirement_stage # None
     /\ conversations_table[turn.state.session_id] # None) =>
        LET R == turn.requirement_stage[1]
            sid == turn.state.session_id
            retrieved == retrieve_context(conversations_table, user_requirements_table,
                                          messages_table, sid)
        IN  \A k \in 1..Len(R) :
                /\ Holds(StoredRequirements(conversations_table[sid]), R[k])
                /\ Holds(retrieved[1].extracted_requirements, R[k])

AppendOnly(S, batch, result) ==
    /\ Len(result) >= Len(S)
    /\ SubSeq(result, 1, Len(S)) = S
    /\ \A i \in (Len(S) + 1)..Len(result) : \E j \in 1..Len(batch) : batch[j] = result[i]
    /\ \A j \in 1..Len(batch) :
          batch[j].requirement_value \notin ValuesOf(S) =>
              \E i \in (Len(S) + 1)..Len(result) : result[i] = batch[j]

\* C25: the requirements extract_requirements returns, and those of the
\* context update_context builds, are the previous requirements, unmodified
\* and in their order, followed by the added ones; a requirement whose value
\* differs from all previous values is among the added ones.
C25_MergeIsAppendOnly ==
    /\ (extract_call.op = "extract_requirements" /\ ~extract_call.raised) =>
          AppendOnly(extract_call.previous,
                     BuiltRequirements(extract_call.extracted_data)[1],
                     extract_call.requirements)
    /\ \A i \in 1..Len(update_calls) :
          AppendOnly(IF update_calls[i].existing = None THEN <<>>
                     ELSE update_calls[i].existing[1].extracted_requirements,
                     update_calls[i].new_requirements,
                     update_calls[i].context.extracted_requirements)

\* extract_requirements merged a batch of two into a previous set: one with
\* a value of the set under another category, which was left out, and one
\* with a new value in a category of the set, which was added at the end.
C25_Witness ==
    /\ extract_call.op = "extract_requirements"
    /\ ~extract_call.raised
    /\ extract_call.previous # <<>>
    /\ LET S == extract_call.previous
           batch == BuiltRequirements(extract_call.extracted_data)[1]
       IN  /\ Len(batch) = 2
           /\ batch[1].requirement_value \in ValuesOf(S)
           /\ \A i \in 1..Len(S) : S[i] # batch[1]
           /\ batch[2].requirement_value \notin ValuesOf(S)
           /\ \E i \in 1..Len(S) : S[i].requirement_type = batch[2].requirement_type
           /\ extract_call.requirements = Append(S, batch[2])

\* update_context appended a requirement with a new value to the
\* requirements of an existing context.
C25_WitnessUpdateContext ==
    /\ Len(update_calls) >= 1
    /\ update_calls[1].existing # None
    /\ update_calls[1].existing[1].extracted_requirements # <<>>
    /\ Len(update_calls[1].new_requirements) = 1
    /\ update_calls[1].context.extracted_requirements
          = Append(update_calls[1].existing[1].extracted_requirements,
                   update_calls[1].new_requirements[1])

\* The requirements of a list, as a set.
SetOf(requirements) == {requirements[i] : i \in 1..Len(requirements)}

\* Batch A is one requirement and batch B another with the same value in a
\* different category, and no requirement of S has that value.
SameValueOtherCategory ==
    /\ merge_call.op = "merge"
    /\ Len(merge_call.A) = 1
    /\ Len(merge_call.B) = 1
    /\ merge_call.A[1].requirement_value = merge_call.B[1].requirement_value
    /\ merge_call.A[1].requirement_type # merge_call.B[1].requirement_type
    /\ merge_call.A[1].requirement_value \notin ValuesOf(merge_call.S)

\* C26: for two requirements with the same value and different categories,
\* merged as batches A and B into a set that lacks the value, A then B and
\* B then A end in different requirement sets.
C26_MergeNotCommutative ==
    SameValueOtherCategory => SetOf(merge_call.a_then_b) # SetOf(merge_call.b_then_a)

\* Such batches were merged into a non-empty set: A then B kept A's
\* requirement only, B then A kept B's only.
C26_Witness ==
    /\ SameValueOtherCategory
    /\ merge_call.S # <<>>
    /\ merge_call.a_then_b = Append(merge_call.S, merge_call.A[1])
    /\ merge_call.b_then_a = Append(merge_call.S, merge_call.B[1])

(***************************************************************************)
(* Properties of the fields of the context other than the requirements.    *)
(***************************************************************************)
\* The context the session's record held before a call, if it held one.
PreviousContext(call) ==
    IF call.previous[1].current_context = None
    THEN Context(call.session_id, None, <<>>, None, None, 0)
    ELSE call.previous[1].current_context[1]

\* C24: update_context on an existing session returns and stores a context
\* in which the recommendation reference is the supplied one, or without one
\* the reference stored before; the last intents and the summary, none being
\* supplied, are the ones stored before; and updated_at is the time of the
\* call.
C24_OverwriteIfProvided ==
    \A i \in 1..Len(update_calls) :
        LET call == update_calls[i]
        IN  call.previous # None =>
                /\ ~call.raised
                /\ call.stored # None
                /\ call.stored[1].current_context = Some(call.context)
                /\ call.context.current_recommendation_id =
                      IF call.current_recommendation # None
                      THEN call.current_recommendation
                      ELSE PreviousContext(call).current_recommendation_id
                /\ call.context.last_intents = PreviousContext(call).last_intents
                /\ call.context.conversation_summary
                      = PreviousContext(call).conversation_summary
                /\ call.context.updated_at = now

(***************************************************************************)
(* Properties of the read-modify-write of the session record.              *)
(***************************************************************************)
\* The operation has handed its copy to update, which returned or raised.
WriterFinished(kind) ==
    /\ kind \in DOMAIN writers
    /\ writers[kind].pc \in {"done", "raised"}

\* The stored record carries the change of the operation.
ChangeStored(kind) ==
    LET stored == conversations_table[WriterSession][1]
    IN  IF kind = "resume_session"
        THEN stored.last_accessed_at = writers[kind].local.last_accessed_at
        ELSE stored.current_context = writers[kind].local.current_context

\* C27: the put-back of an operation replaces the whole record without a
\* version check.  An operation that overlapped no other, or was the last to
\* put back, has its change in the stored record; of two overlapping
\* operations the stored record is the copy of the later one.
C27_LostUpdateOnlyWhenOverlapping ==
    \A kind \in WriterKinds :
        WriterFinished(kind) =>
            /\ writers[kind].pc = "done"
            /\ IF ~writers[kind].overlapped \/ writers[kind].last
               THEN ChangeStored(kind)
               ELSE \E later \in WriterKinds \ {kind} :
                       /\ WriterFinished(later)
                       /\ writers[later].last
                       /\ conversations_table[WriterSession] = Some(writers[later].local)

(***************************************************************************)
(* Properties of the summary.                                              *)
(***************************************************************************)
\* The messages the summary draws on and the characters it takes of each.
SummaryCount == Min(5, Len(summary_call.lengths))
TakenOf(i) == Min(100, summary_call.lengths[i])

RECURSIVE TakenUpTo(_)
TakenUpTo(i) == IF i = 0 THEN 0 ELSE TakenUpTo(i - 1) + TakenOf(i)

\* Where the part of message i starts in the joined text, and its length.
PartStart(i) == TakenUpTo(i - 1) + 3 * (i - 1)
JoinedLength == IF SummaryCount = 0 THEN 0 ELSE TakenUpTo(SummaryCount) + 3 * (SummaryCount - 1)

\* The character at position p of the joined text, whose parts start after
\* the positions starts[i].
JoinedChar(starts, p) ==
    LET i == CHOOSE i \in 1..SummaryCount : starts[i] < p /\ p <= starts[i + 1]
        k == p - starts[i]
    IN  IF k <= TakenOf(i) THEN 1000 * i + k ELSE SEPARATOR[k - TakenOf(i)]

\* C28: the summary has at most 500 characters.  It is the first 100
\* characters of each of the first 5 messages joined by " | "; when that
\* text has more than 500 characters the summary is its first 497
\* characters and "...", 500 characters; without messages it is empty.
C28_SummaryWithinCap ==
    summary_call.op = "summarize_conversation" =>
        LET summary == summary_call.summary
            starts == [i \in 1..(SummaryCount + 1) |-> PartStart(i)]
            joined_length == JoinedLength
        IN  /\ Len(summary) <= 500
            /\ Len(summary) = IF joined_length > 500 THEN 500 ELSE joined_length
            /\ \A p \in 1..Len(summary) :
                  summary[p] = IF joined_length > 500 /\ p > 497 THEN 46
                               ELSE JoinedChar(starts, p)
            /\ summary_call.lengths = <<>> => summary = <<>>

\* Six messages of more than 100 characters: the joined text of the first
\* five has 512 characters and the summary is cut to 497 and marked.
C28_Witness ==
    /\ summary_call.op = "summarize_conversation"
    /\ Len(summary_call.lengths) = 6
    /\ \A i \in 1..6 : summary_call.lengths[i] > 100
    /\ JoinedLength = 512
    /\ Len(summary_call.summary) = 500
    /\ SubSeq(summary_call.summary, 498, 500) = ELLIPSIS
    /\ summary_call.summary[497] = 5085

\* The joined text has 501 characters, one more than the cap.
C28_WitnessJustOver ==
    /\ summary_call.op = "summarize_conversation"
    /\ JoinedLength = 501
    /\ Len(summary_call.summary) = 500
    /\ SubSeq(summary_call.summary, 498, 500) = ELLIPSIS

(***************************************************************************)
(* Properties of the price lookup.                                         *)
(***************************************************************************)
\* The entry the cache returned to the last call, and whether it was within
\* the freshness window.
EntrySeen ==
    LET cache == price_state.call.cache_before
    IN  IF cache # None /\ price_state.call.at - cache[1].cached_at[1] < cache[1].ttl_hours
        THEN cache ELSE None

SeenFresh == EntrySeen # None /\ price_state.call.at - EntrySeen[1].cached_at[1] < 24

Unavailable(cost) == cost.monthly_cost = 0 /\ cost.note # None

C29_WitnessFresh ==
    /\ price_state.call.op = "calculate_service_cost"
    /\ price_state.call.service = "EC2"
    /\ SeenFresh
    /\ EntrySeen[1].price = RemotePrice
    /\ ~price_state.call.remote_called
    /\ price_state.call.cost.monthly_cost = RemotePrice * 730

(***************************************************************************)
(* Properties of the rate limiter.                                         *)
(***************************************************************************)
\* A refused request has set no counter.
RefusedWroteNothing ==
    \A w \in Workers :
        limiter.workers[w].pc = "refused" => ~limiter.workers[w].wrote

\* The requests allowed during the present lifetime of the session key are
\* no more than the limit.
AllowedWithinLimit == limiter.allowed <= SessionLimit

\* C30: during one lifetime of the session counter key no more than 60
\* requests of the session are allowed, however the calls of the workers
\* interleave, and a request refused by the address limit or the session
\* limit leaves both counters unchanged.
C30_SessionLimitUnderInterleaving ==
    limiter.op = "check_rate_limit" => AllowedWithinLimit /\ RefusedWroteNothing

(***************************************************************************)
(* Properties of the message endpoint and of the not-found outcomes.       *)
(***************************************************************************)
\* The session has no record, or the time is past the expiry of its record.
MissingOrExpired(table, clock, session_id) ==
    \/ table[session_id] = None
    \/ table[session_id][1].expires_at < clock

\* C22: a message sent to a session that is missing or past its expiry gets
\* the not-found outcome; no message is stored for it and its record, with
\* the context, stays as it was.
C22_NotFoundNeverEntersPipeline ==
    (/\ session_call.op = "send_message"
     /\ MissingOrExpired(session_call.before, session_call.at, session_call.session_id)) =>
        /\ session_call.outcome = "not found"
        /\ messages_table = session_call.messages_before
        /\ conversations_table = session_call.before

\* The session has a record and the time has reached its expiry.
Expired(table, clock, session_id) ==
    /\ table[session_id] # None
    /\ table[session_id][1].expires_at <= clock

\* The table without a record of the session.
NeverExisted(table, session_id) == [table EXCEPT ![session_id] = None]

\* C23: resume_session, restore_context and GET conversation on a session
\* that exists but is expired end as they end for the same call when the
\* session never existed.
C23_ExpiredLooksLikeMissing ==
    (/\ session_call.op \in {"resume_session", "restore_context", "get_conversation"}
     /\ Expired(session_call.before, session_call.at, session_call.session_id)) =>
        LET sid == session_call.session_id
            missing == NeverExisted(session_call.before, sid)
        IN  CASE session_call.op = "resume_session" ->
                    LET r == resume_session(missing, session_call.at, sid)
                    IN  /\ session_call.raised = r.raised
                        /\ session_call.result = r.value
              [] session_call.op = "restore_context" ->
                    session_call.result
                        = restore_context(missing, user_requirements_table,
                                          messages_table, session_call.at, sid)
              [] session_call.op = "get_conversation" ->
                    LET r == get_conversation(missing, user_requirements_table,
                                              messages_table, session_call.at, sid)
                    IN  /\ session_call.raised = r.raised
                        /\ session_call.status = r.status
                        /\ session_call.body = r.body

(***************************************************************************)
(* Properties of operations on different sessions.                         *)
(***************************************************************************)
\* The sessions the step from the unprimed to the primed state acts on.
ActedOn ==
    (IF session_call' # session_call THEN {session_call'.session_id} ELSE {})
    \cup (IF update_calls' # update_calls
          THEN {update_calls'[Len(update_calls')].session_id} ELSE {})
    \cup (IF turn' # turn THEN {turn'.state.session_id} ELSE {})

\* C21: a turn, update_context or resume_session on one session leaves the
\* stored record (with its context), the requirements and the messages of
\* every other session as they were.
C21_OtherSessionsUntouched ==
    [][\A other \in SessionIds \ ActedOn :
          /\ conversations_table'[other] = conversations_table[other]
          /\ user_requirements_table'[other] = user_requirements_table[other]
          /\ messages_table'[other] = messages_table[other]]_vars

\* update_context ran on s1 and reached the save while a turn on s2 was
\* under way, which then reached the save of its requirement stage, with both
\* sessions stored.
C21_Witness ==
    /\ conversations_table["s1"] # None
    /\ conversations_table["s2"] # None
    /\ Len(update_calls) = 1
    /\ update_calls[1].session_id = "s1"
    /\ update_calls[1].raised
    /\ turn.pc = "raised"
    /\ turn.state.session_id = "s2"
    /\ turn.raised_in = "extract_requirements"
    /\ turn.error = "AttributeError"

====
